---- MODULE Spec2Model ----
(***************************************************************************)
(* Tandem classifier scan: the device contract of instruments.py and the   *)
(* scan orchestration of tandem.py (Ui.runScan, Ui.check, Ui.next,         *)
(* Ui.plotIt, Ui.endScan).  One action per code segment between two        *)
(* suspension points (app.processEvents), so that a press of the stop      *)
(* button (Ui.endScan) can be delivered exactly where the code lets the    *)
(* event loop run.                                                         *)
(***************************************************************************)
EXTENDS Integers, Sequences, FiniteSets, TLC

\* ---------------------------------------------------------------- bounds
MaxOuter  == 2   \* largest number of points of the first classifier's axis
MaxInner  == 3   \* number of points of the second classifier's axis
MaxAve    == 2   \* averaging count (Ui.average)
MaxSettle == 1   \* both settle delays, in 0.1 s sub-intervals
MaxFaults == 1   \* non-acknowledging / failed device exchanges in one scan
MaxPolls  == 1   \* DataReady polls of plotIt that find the 3082 still scanning

\* ---------------------------------------------------------------- devices
Cls      == {"first", "second"}
Devices  == {"first", "second", "cpc", "arduino"}
Kinds    == {"CPMA", "AAC", "TSI3080", "TSI3082"}

\* A device's answer to one command: acknowledged, explicitly refused, or
\* nothing at all because the transport raised (the except branches).
Rsp == {"ok", "nack", "none"}

VARIABLES
  cfg,          \* the settings read by runScan (fixed during a behaviour)
  pc,           \* where the single thread of control is
  isScanning,   \* Ui.isScanning
  timerArmed,   \* Ui.timer is running
  fileOpen,     \* Ui.file is open
  startRow,     \* Ui.startRow
  doBypass,     \* Ui.doBypass
  firstBypass,  \* Ui.firstBypass
  finalBypass,  \* Ui.finalBypass
  disBypass,    \* Ui.disBypass
  alive,        \* device -> the Ui attribute holds a live object
  point,        \* classifier -> Classifier.point
  tally,        \* classifier -> Classifier.tally
  scan3082,     \* the 3082's own scan: "idle", "running", "done"
  relayOn,      \* the bypass relay driven by the Arduino
  polling,      \* the counter was told to start polling (startpoll)
  k,            \* loop counter of the current settle / averaging loop
  polls,        \* plotIt polls that found the 3082 still scanning
  io,           \* link states and the record of the commands sent
  Z,            \* cells of Ui.Z written so far, as <<outer, inner>>
  rows,         \* rows written to the output file
  sweeps,       \* inner sweeps finished so far, "bypass" or "class"
  released,     \* devices in the order they were released
  samples,      \* number of cpc.conc() calls
  cancelAt,     \* pc at which the stop button was delivered ("" if never)
  rowsAtCancel, \* Len(rows) when the stop button was delivered
  reported,     \* what Ui.barf showed: <<device, lastResponse>> or <<>>
  outcome,      \* how the last scan ended
  cls,          \* one Classifier object, exercised outside a scan
  call          \* one evaluation of a function: name, arguments, result

vars == <<cfg, pc, isScanning, timerArmed, fileOpen, startRow, doBypass,
          firstBypass, finalBypass, disBypass, alive, point, tally, scan3082,
          relayOn, polling, k, polls, io, Z, rows, sweeps, released,
          samples, cancelAt, rowsAtCancel, reported, outcome, cls, call>>

\* ------------------------------------------------------------ configuration
IsCamb(kind) == kind \in {"CPMA", "AAC"}

KindOf(c) == IF c = "first" THEN cfg.k1 ELSE cfg.k2

\* The second classifier alone can be built as a scanner; runScan passes
\* isScanner = False for the first one.
IsScannerDev(c) == c = "second" /\ cfg.scanner

\* What VarDiameter computes from the outer setpoints of a scan: a range
\* with 1.02 <= start < end ("valid"); start >= end with both bounds on the
\* 3082 size table, as with f_lower >= f_upper ("inverted"); or dmStar <= 1,
\* where the lower bound is under the table's first size and, with the
\* default factors, start >= end ("below").
RangeKinds == {"valid", "inverted", "below"}

Configs ==
  { f \in [k1 : Kinds, k2 : Kinds, scanner : BOOLEAN, varBins : BOOLEAN,
           bypass : BOOLEAN, P : 1..MaxOuter, Q : {MaxInner},
           N : {MaxAve}, d1 : {MaxSettle}, d2 : {MaxSettle},
           range : RangeKinds] :
      /\ f.scanner => f.k2 \in {"AAC", "TSI3082"}
      /\ f.varBins => f.scanner
      /\ ~f.varBins => f.range = "valid" }

Scan3082Mode == cfg.scanner /\ cfg.k2 = "TSI3082"
ScanAacMode  == cfg.scanner /\ cfg.k2 = "AAC"

\* Classifier.points.  A scanning AAC starts with an empty axis.
Points(c) ==
  IF c = "first" THEN cfg.P
  ELSE IF cfg.scanner /\ cfg.k2 = "AAC" THEN 0 ELSE cfg.Q

\* -------------------------------------------------------- the device link
IoInit ==
  [ conn           |-> [d \in Devices |-> FALSE],
    lastRsp        |-> [c \in Cls |-> ""],
    setCmds        |-> [c \in Cls |-> 0],
    advCmds        |-> [c \in Cls |-> 0],
    runCmds        |-> 0,
    faults         |-> 0,
    sentDisc       |-> FALSE,
    rejected       |-> FALSE,
    rejBy          |-> {},
    setRunAfterRej |-> FALSE,
    cmdAfterRej    |-> FALSE,
    qdisc          |-> {},
    cmdAfterQDisc  |-> FALSE,
    ranges         |-> <<>>,
    cscans         |-> <<>>,
    scanInvalid    |-> FALSE,
    connFail       |-> {},
    meas           |-> {},
    stage          |-> [c \in Cls |-> "none"] ]

\* The answers a device can give now.  A link that is down gives nothing.
Answers(s, d) ==
  IF ~s.conn[d] THEN {"none"}
  ELSE IF s.faults < MaxFaults THEN Rsp ELSE {"ok"}

\* Answers to a command whose result the caller drops: refused and
\* acknowledged are the same to the program.
AnswersIgn(s, d) == Answers(s, d) \ {"nack"}

\* Commands whose answer is kept in lastResponse (sendAndCheck).
CheckedCmds == {"set", "run", "stop", "cfg", "scan", "range", "release"}

\* Instrument.sendQuery: the command goes out whatever the link state; a
\* transport error marks the link Disconnected and yields the empty answer.
SendQuery(s, d, cmd, r) ==
  [ s EXCEPT
      !.conn    = [@ EXCEPT ![d] = @ /\ r # "none"],
      !.lastRsp = IF d \in Cls /\ cmd \in CheckedCmds
                  THEN [@ EXCEPT ![d] = r] ELSE @,
      !.setCmds = IF cmd = "set" THEN [@ EXCEPT ![d] = @ + 1] ELSE @,
      !.stage   = IF cmd = "set" THEN [@ EXCEPT ![d] = "set"] ELSE @,
      !.runCmds = IF cmd = "run" THEN @ + 1 ELSE @,
      !.faults  = IF s.conn[d] /\ r # "ok" THEN @ + 1 ELSE @,
      !.sentDisc = @ \/ ~s.conn[d],
      !.rejected = @ \/ (cmd \in {"set", "run"} /\ r = "nack"),
      !.rejBy    = IF cmd \in {"set", "run"} /\ r = "nack"
                   THEN @ \cup {d} ELSE @,
      !.setRunAfterRej = @ \/ (d \in s.rejBy /\ cmd \in {"set", "run"}),
      !.cmdAfterRej    = @ \/ (s.rejected /\ cmd # "release"),
      !.qdisc = IF isScanning /\ s.conn[d] /\ r = "none"
                   /\ cmd \in {"status", "monitor"}
                THEN @ \cup {d} ELSE @,
      !.cmdAfterQDisc = @ \/ (d \in s.qdisc /\ cmd # "release") ]

\* sendAndCheck: Cambustion devices want "OK"; the TSI DMAs accept anything
\* that does not start with "ERROR".
Acks(kind, r) == IF IsCamb(kind) THEN r = "ok" ELSE r # "nack"


\* ------------------------------------------------------------- release
\* __del__ of a device: Cambustion classifiers send "stop" first, a scanning
\* 3082 sends DOABORTSCAN first; then the link is closed.
SendsOnRelease(d) ==
  /\ d \in Cls
  /\ \/ IsCamb(KindOf(d))
     \/ (KindOf(d) = "TSI3082" /\ IsScannerDev(d))

ReleaseIo(s, d) ==
  LET s1 == IF SendsOnRelease(d)
            THEN SendQuery(s, d, "release", IF s.conn[d] THEN "ok" ELSE "none")
            ELSE s
  IN  [s1 EXCEPT !.conn = [@ EXCEPT ![d] = FALSE]]

RECURSIVE ReleaseSeq(_, _)
ReleaseSeq(s, order) ==
  IF order = <<>> THEN s
  ELSE ReleaseSeq(ReleaseIo(s, Head(order)), Tail(order))

SeqRange(q) == {q[n] : n \in 1..Len(q)}

\* The order of the del statements at the end of Ui.endScan.
EndScanOrderMutCounterFirst == <<"cpc", "first", "second">>

EndScanOrderMutNoCounter == <<"first", "second">>

EndScanOrder == <<"first", "second", "cpc">>

\* The order of the del statements on runScan's failed-initialisation paths.
InitFailOrder == <<"second", "first", "cpc">>

\* del of the attributes named in `order`, from link state s.
ReleaseEffect(s, order) ==
  /\ alive'    = [d \in Devices |-> alive[d] /\ d \notin SeqRange(order)]
  /\ released' = released \o order
  /\ io'       = ReleaseSeq(s, order)

\* Ui.endScan past its isScanning guard: close the file, stop the timer,
\* drop the three device attributes.
EndScanEffect(s) ==
  /\ isScanning' = FALSE
  /\ timerArmed' = FALSE
  /\ fileOpen'   = FALSE
  /\ ReleaseEffect(s, EndScanOrder)

\* Ui.barf during a scan: endScan, then the message with lastResponse.
BarfEffect(s, d) ==
  /\ EndScanEffect(s)
  /\ reported' = <<d, s.lastRsp[d]>>
  /\ outcome'  = "aborted"
  /\ pc'       = "Idle"

\* What no step of a scan changes: the settings and the contract harness.
fixedVars  == <<cfg, cls, call>>
flagVars   == <<startRow, doBypass, firstBypass, finalBypass, disBypass>>
dataVars   == <<Z, rows, sweeps, samples>>
cancelVars == <<cancelAt, rowsAtCancel>>
classVars  == <<point, tally>>
plantVars  == <<scan3082, relayOn, polling, polls>>
uiVars     == <<isScanning, timerArmed, fileOpen>>

\* ------------------------------------------------- the classifier contract
\* A setpoint, a range bound or a diameter is a positive real.  It is held
\* by its log10, as a fraction <<n, d>> with d > 0, so that 10**x, pow and
\* log10 are exact: a product is a sum of logs, a power is a product.
LogDen     == 2   \* start and end are given in 1/LogDen decades
MaxSpan    == 3   \* largest end/start, in 1/LogDen decades
MaxPerdec  == 2   \* largest number of points per decade
MaxSamples == 2   \* monitor() calls between two next(), samples of a point
MaxDecades == 10  \* |log10(mStar/PreFactor)| of a range recomputation

Less(a, b)  == a[1] * b[2] < b[1] * a[2]
Equal(a, b) == a[1] * b[2] = b[1] * a[2]
Abs(n)      == IF n < 0 THEN -n ELSE n

\* The 0.00001 added before math.floor, as 1/EpsDen.
EpsDen == 100000

ClassifierPointsMutNoPlusOne(start, end, perdec) ==
  (perdec * (end[1] * start[2] - start[1] * end[2]) * EpsDen
     + end[2] * start[2]) \div (end[2] * start[2] * EpsDen)

\* Classifier.__init__ 143-144:
\* floor(perdec*(log10(end) - log10(start)) + 0.00001) + 1.
ClassifierPoints(start, end, perdec) ==
  ((perdec * (end[1] * start[2] - start[1] * end[2]) * EpsDen
      + end[2] * start[2]) \div (end[2] * start[2] * EpsDen)) + 1

\* Classifier.getPoint: start * (10**(1/perdec))**p.
GetPoint(start, perdec, p) ==
  <<start[1] * perdec + p * start[2], start[2] * perdec>>

\* The channels monitor() accumulates (valueFields) and what a device can
\* report for one of them.
ValueFields == {"Sheath flow (lpm)", "Temperature (C)"}
Readings    == {0, 1}
ZeroValues  == [ch \in ValueFields |-> 0]

\* What a call can change of a classifier, kept to compare before and after.
Snap(c) == [point |-> c.point, x |-> c.x, tally |-> c.tally,
            values |-> c.values, hasValues |-> c.hasValues]

\* Classifier.__init__ (and AAC.__init__ 329-335, which gives a scanner an
\* empty axis).  self.x starts as 0.0, written <<>>; values and tally do not
\* exist before the first next().
ClassifierInit(kind, isScanner, start, end, perdec) ==
  LET n   == ClassifierPoints(start, end, perdec)
      aac == kind = "AAC" /\ isScanner
      c0  == [ kind |-> kind, isScanner |-> isScanner,
               start |-> start, end |-> end, perdec |-> perdec,
               points |-> IF aac THEN 0 ELSE n,
               X |-> IF aac THEN <<>>
                     ELSE [i \in 1..n |-> GetPoint(start, perdec, i - 1)],
               point |-> -1, x |-> <<>>,
               hasValues |-> FALSE, values |-> ZeroValues, tally |-> 0,
               readings |-> <<>>,
               op |-> "init", res |-> "ok", sent |-> 0, out |-> <<>> ]
  IN  [ f \in DOMAIN c0 \cup {"pre"} |->
          IF f = "pre" THEN Snap(c0) ELSE c0[f] ]

\* AAC.StartScan never reaches the line that sets isScanning (a line cannot
\* start with "Cambustion" and with "SCAN"), so AAC.next and AAC.monitor of
\* a scanner always take their not-scanning branch.
AacIsScanningMutStarts == TRUE

AacIsScanning == FALSE

\* Classifier.next 156-162, AAC.next 451-458: the accumulators are zeroed
\* and the index is incremented before X[point] is read, so past the last
\* point the call raises IndexError with the index already moved.
ClassifierNext(c) ==
  LET z == [c EXCEPT !.hasValues = TRUE, !.values = ZeroValues,
                     !.readings = <<>>, !.pre = Snap(c), !.op = "next",
                     !.out = <<>>]
  IN  IF c.kind = "AAC" /\ c.isScanner
      THEN IF AacIsScanning
           THEN { [z EXCEPT !.point = c.point + 1,
                            !.points = IF c.point + 1 >= c.points
                                       THEN c.points + 1 ELSE c.points,
                            !.X = IF c.point + 1 >= c.points
                                  THEN Append(c.X, <<0, 1>>) ELSE c.X,
                            !.res = "True", !.sent = 0] }
           ELSE { [z EXCEPT !.tally = 1, !.res = "True", !.sent = 0] }
      ELSE IF c.point + 1 >= c.points
      THEN { [z EXCEPT !.tally = 0, !.point = c.point + 1,
                       !.res = "raise", !.sent = 0] }
      ELSE { [z EXCEPT !.tally = 0, !.point = c.point + 1,
                       !.x = c.X[c.point + 2], !.res = r, !.sent = 1]
             : r \in {"True", "False"} }

\* Classifier.moreToCome on the object.
ClassifierMoreToCome(c) ==
  IF c.kind = "AAC" /\ c.isScanner THEN AacIsScanning
  ELSE c.point + 1 < c.points

\* Classifier.reset; TSI3082.reset of a scanner then deletes ScanStatus,
\* which exists only once DataReady has been called (AttributeError).
ClassifierReset(c) ==
  [c EXCEPT !.point = -1, !.pre = Snap(c), !.op = "reset",
            !.res = IF c.kind = "TSI3082" /\ c.isScanner THEN "raise"
                    ELSE "ok",
            !.sent = 0, !.out = <<>>]

\* Classifier.monitor: one feedback query, each channel's reading added to
\* its sum, tally incremented.  Before the first next() self.values does not
\* exist (AttributeError).
ClassifierMonitor(c, r) ==
  LET z == [c EXCEPT !.pre = Snap(c), !.op = "monitor", !.sent = 0,
                     !.out = <<>>]
  IN  IF ~c.hasValues THEN [z EXCEPT !.res = "raise"]
      ELSE [z EXCEPT !.values = [ch \in ValueFields |-> @[ch] + r[ch]],
                     !.tally = @ + 1,
                     !.readings = Append(@, r),
                     !.res = "ok"]

MeanMutOffByOne(sum, n) == <<sum, n + 1>>

\* values[field] / float(tally), as the fraction <<sum, tally>>.
Mean(sum, n) == <<sum, n>>

GetFileDataMutNoError(c) ==
  [c EXCEPT !.pre = Snap(c), !.op = "getFileData", !.sent = 0,
            !.res = "ok",
            !.out = [quantity |-> c.x,
                     mean |-> [ch \in ValueFields |->
                                 Mean(c.values[ch], c.tally)]]]

\* Classifier.getFileData: the setpoint and, per channel, sum / tally;
\* float division by a zero tally raises ZeroDivisionError.
GetFileData(c) ==
  LET z == [c EXCEPT !.pre = Snap(c), !.op = "getFileData", !.sent = 0]
  IN  IF ~c.hasValues \/ c.tally = 0
      THEN [z EXCEPT !.res = "raise", !.out = <<>>]
      ELSE [z EXCEPT !.res = "ok",
                     !.out = [quantity |-> c.x,
                              mean |-> [ch \in ValueFields |->
                                          Mean(c.values[ch], c.tally)]]]

\* The presets of the mass-mobility exponent (351, 354), as fractions, and
\* the default range factors (343, 347), in per cent.
WaterExponent == <<3, 1>>
SootExponent  == <<62, 25>>
FLowerDefault == 85
FUpperDefault == 110

VarDiameterMutFemto(lm, Dm, f_lower, f_upper) ==
  LET dmStar == <<(lm - 15) * Dm[2] + 9 * Dm[1], Dm[1]>>
  IN  [ dmStar |-> dmStar,
        start  |-> <<f_lower * dmStar[1], 100 * dmStar[2]>>,
        end    |-> <<f_upper * dmStar[1], 100 * dmStar[2]>> ]

\* VarDiameter 367-371 with lm = log10(mStar / PreFactor):
\* dmStar = ((mStar * 10**-18) / K) ** (1/Dm) * 10**9, and the bounds
\* dmStar ** f_lower and dmStar ** f_upper.
VarDiameter(lm, Dm, f_lower, f_upper) ==
  LET dmStar == <<(lm - 18) * Dm[2] + 9 * Dm[1], Dm[1]>>
  IN  [ dmStar |-> dmStar,
        start  |-> <<f_lower * dmStar[1], 100 * dmStar[2]>>,
        end    |-> <<f_upper * dmStar[1], 100 * dmStar[2]>> ]

\* AAC.VarDiameter on the object: start and end are overwritten, nothing is
\* sent.
AacVarDiameter(c, lm) ==
  LET v == VarDiameter(lm, WaterExponent, FLowerDefault, FUpperDefault)
  IN  [c EXCEPT !.start = v.start, !.end = v.end, !.pre = Snap(c),
                !.op = "VarDiameter", !.res = "ok", !.sent = 0,
                !.out = <<>>]

\* TSI3082.tolerance = 0.05, as 1/TolDen.
TolDen == 20

IsReady3082MutInclusive(ss, sm, vs, vm) ==
  IF ss = 0 THEN "raise"
  ELSE IF ~(Abs(ss - sm) * TolDen <= Abs(ss)) THEN "False"
  ELSE IF vs = 0 THEN "raise"
  ELSE IF Abs(vs - vm) * TolDen <= Abs(vs) THEN "True"
  ELSE "False"

\* TSI3082.isReady 720-725: abs((ss-sm)/ss) < tolerance and
\* abs((vs-vm)/vs) < tolerance; a zero setpoint raises ZeroDivisionError,
\* and the voltage is not looked at when the sheath flow is out.
IsReady3082(ss, sm, vs, vm) ==
  IF ss = 0 THEN "raise"
  ELSE IF ~(Abs(ss - sm) * TolDen < Abs(ss)) THEN "False"
  ELSE IF vs = 0 THEN "raise"
  ELSE IF Abs(vs - vm) * TolDen < Abs(vs) THEN "True"
  ELSE "False"

NoClassifier ==
  [ClassifierInit("CPMA", FALSE, <<0, 1>>, <<1, 1>>, 1) EXCEPT !.op = "none"]

NoCall == [fn |-> "none", arg |-> <<>>, out |-> <<>>]

\* ------------------------------------------------------------ construction
\* Classifier.__init__ and the subclass constructors, after connect(): the
\* set-up commands go out whether or not connect() succeeded, and their
\* results are dropped.  CambustionClass.__init__ ends with set(start).
ConstructOutcomes(s, c) ==
  UNION { LET s1 == SendQuery(s, c, "cfg", r1)
          IN  IF IsCamb(KindOf(c))
              THEN { SendQuery(s1, c, "set", r2) : r2 \in Answers(s1, c) }
              ELSE { s1 }
          : r1 \in AnswersIgn(s, c) }

\* Instrument.__init__ 27: connected = connect().
Connect(s, d, ok) ==
  [s EXCEPT !.conn = [@ EXCEPT ![d] = ok],
            !.connFail = IF ok THEN @ ELSE @ \cup {d}]

\* Ui.__init__: no scan is on, nothing is held, nothing was sent.
NoScan ==
  /\ isScanning = FALSE
  /\ timerArmed = FALSE
  /\ fileOpen = FALSE
  /\ startRow = FALSE
  /\ doBypass = FALSE
  /\ firstBypass = FALSE
  /\ finalBypass = FALSE
  /\ disBypass = FALSE
  /\ alive = [d \in Devices |-> FALSE]
  /\ point = [c \in Cls |-> -1]
  /\ tally = [c \in Cls |-> 0]
  /\ scan3082 = "idle"
  /\ relayOn = FALSE
  /\ polling = FALSE
  /\ k = 0
  /\ polls = 0
  /\ io = IoInit
  /\ Z = {}
  /\ rows = <<>>
  /\ sweeps = <<>>
  /\ released = <<>>
  /\ samples = 0
  /\ cancelAt = ""
  /\ rowsAtCancel = 0
  /\ reported = <<>>
  /\ outcome = "none"

Init ==
  /\ cfg \in Configs
  /\ pc = "Idle"
  /\ NoScan
  /\ cls = NoClassifier
  /\ call = NoCall

\* Ui.runScan up to the first classifier's connection check (217-275).
RunScanFirst ==
  /\ pc = "Idle"
  /\ outcome = "none"
  /\ \E ok \in BOOLEAN :
       \E s \in ConstructOutcomes(Connect(io, "first", ok), "first") :
         IF s.conn["first"]
         THEN /\ io' = s
              /\ alive' = [alive EXCEPT !["first"] = TRUE]
              /\ pc' = "InitSecond"
              /\ UNCHANGED <<released, outcome>>
         ELSE /\ ReleaseEffect(s, <<"first">>)
              /\ pc' = "Idle"
              /\ outcome' = "initfail"
  /\ point' = [point EXCEPT !["first"] = -1]
  /\ tally' = [tally EXCEPT !["first"] = 0]
  /\ UNCHANGED <<fixedVars, uiVars, flagVars, plantVars, k, dataVars, cancelVars,
                 reported>>

\* Ui.runScan 276-310: the second classifier.
RunScanSecond ==
  /\ pc = "InitSecond"
  /\ \E ok \in BOOLEAN :
       \E s \in ConstructOutcomes(Connect(io, "second", ok), "second") :
         IF s.conn["second"]
         THEN /\ io' = s
              /\ alive' = [alive EXCEPT !["second"] = TRUE]
              /\ pc' = "InitCounter"
              /\ UNCHANGED <<released, outcome>>
         ELSE /\ ReleaseEffect(s, SubSeq(InitFailOrder, 1, 2))
              /\ pc' = "Idle"
              /\ outcome' = "initfail"
  /\ point' = [point EXCEPT !["second"] = -1]
  /\ tally' = [tally EXCEPT !["second"] = 0]
  /\ doBypass' = cfg.bypass
  /\ UNCHANGED <<fixedVars, uiVars, startRow, firstBypass, finalBypass, disBypass,
                 plantVars, k, dataVars, cancelVars, reported>>

\* Ui.runScan 312-344: the Arduino (its connection is not looked at) and the
\* counter.  A scanning second classifier brings its own counts: DummyCPC.
RunScanCounter ==
  /\ pc = "InitCounter"
  /\ \E aok \in (IF cfg.bypass THEN BOOLEAN ELSE {FALSE}),
        cok \in (IF cfg.scanner THEN {TRUE} ELSE BOOLEAN) :
       LET s == Connect(Connect(io, "arduino", aok), "cpc", cok)
       IN  IF cok
           THEN /\ io' = s
                /\ alive' = [alive EXCEPT !["cpc"] = TRUE,
                                          !["arduino"] = cfg.bypass]
                /\ pc' = "InitRun"
                /\ UNCHANGED <<released, outcome>>
           ELSE /\ alive' = [alive EXCEPT !["first"] = FALSE,
                                          !["second"] = FALSE,
                                          !["arduino"] = cfg.bypass]
                /\ released' = released \o InitFailOrder
                /\ io' = ReleaseSeq(s, InitFailOrder)
                /\ pc' = "Idle"
                /\ outcome' = "initfail"
  /\ UNCHANGED <<fixedVars, uiVars, flagVars, classVars, plantVars, k, dataVars,
                 cancelVars, reported>>

\* Classifier.run: CambustionClass sends "start" (a scanning AAC does not);
\* the other classifiers are passive and answer True without a command.
RunSends(c) == IsCamb(KindOf(c)) /\ ~IsScannerDev(c)

\* The link states after c.run(), each with the value run() returned.
RunOutcomes(s, c) ==
  IF RunSends(c)
  THEN { [io |-> SendQuery(s, c, "run", r), ok |-> Acks(KindOf(c), r)]
         : r \in Answers(s, c) }
  ELSE { [io |-> s, ok |-> TRUE] }

\* Ui.runScan 346-360: run both classifiers; a failure shows lastResponse
\* and drops the devices.
RunScanRun ==
  /\ pc = "InitRun"
  /\ \E r1 \in RunOutcomes(io, "first") :
       IF ~r1.ok
       THEN /\ ReleaseEffect(r1.io, InitFailOrder)
            /\ reported' = <<"first", r1.io.lastRsp["first"]>>
            /\ pc' = "Idle"
            /\ outcome' = "aborted"
       ELSE \E r2 \in RunOutcomes(r1.io, "second") :
              IF ~r2.ok
              THEN /\ ReleaseEffect(r2.io, InitFailOrder)
                   /\ reported' = <<"second", r2.io.lastRsp["second"]>>
                   /\ pc' = "Idle"
                   /\ outcome' = "aborted"
              ELSE /\ io' = r2.io
                   /\ pc' = "InitArm"
                   /\ UNCHANGED <<alive, released, reported, outcome>>
  /\ UNCHANGED <<fixedVars, uiVars, flagVars, classVars, plantVars, k, dataVars,
                 cancelVars>>


\* ----------------------------------------------------- classifier contract
\* Classifier.moreToCome.  (A scanning AAC answers its mtc flag, which
\* AAC.StartScan never sets: see AacStartScan.)
MoreToComeMutOffByOne(c) == point[c] < Points(c)

MoreToComeMutLateStop(c) ==
  IF IsScannerDev(c) /\ KindOf(c) = "AAC" THEN FALSE
  ELSE point[c] < Points(c)

MoreToCome(c) ==
  IF IsScannerDev(c) /\ KindOf(c) = "AAC" THEN FALSE
  ELSE point[c] + 1 < Points(c)

\* Classifier.next (and AAC.next of a scanner that is not scanning, which
\* sends nothing, sets tally to 1 and answers True): the link states after
\* the call, each with the value returned.
NextOutcomes(s, c) ==
  IF IsScannerDev(c) /\ KindOf(c) = "AAC"
  THEN { [io |-> s, ok |-> TRUE] }
  ELSE { [io |-> [SendQuery(s, c, "set", r) EXCEPT
                    !.advCmds = [@ EXCEPT ![c] = @ + 1]],
          ok |-> Acks(KindOf(c), r)] : r \in Answers(s, c) }

NextPoint(c) ==
  IF IsScannerDev(c) /\ KindOf(c) = "AAC" THEN point[c] ELSE point[c] + 1

NextTally(c) == IF IsScannerDev(c) /\ KindOf(c) = "AAC" THEN 1 ELSE 0

\* What has happened since the last set-setpoint command to classifier c:
\* nothing ("set"), isReady has returned True ("ready"), the settle delay
\* that follows has run to its end ("settled").
ReadyReported(s, c) ==
  [s EXCEPT !.stage = [@ EXCEPT ![c] = IF @ = "set" THEN "ready" ELSE @]]

SettleElapsed(s, c) ==
  [s EXCEPT !.stage = [@ EXCEPT ![c] = IF @ = "ready" THEN "settled" ELSE @]]

\* isReady: a status string for the Cambustion classifiers and the 3081
\* (an empty answer is "not ready"), a tolerance check on four queried
\* values for the stepped 3082 (float("") raises on an empty answer), True
\* without any query for a scanner.
IsReadyOutcomes(s, c) ==
  IF IsScannerDev(c)
  THEN { [io |-> s, res |-> "ready"] }
  ELSE { [io |-> IF v = "ready"
                 THEN ReadyReported(SendQuery(s, c, "status", "ok"), c)
                 ELSE SendQuery(s, c, "status", "ok"),
          res |-> v]
         : v \in IF s.conn[c] THEN {"ready", "notready"} ELSE {} }
       \cup
       { [io |-> SendQuery(s, c, "status", "none"),
          res |-> IF KindOf(c) = "TSI3082" THEN "raise" ELSE "notready"]
         : r \in Answers(s, c) \cap {"none"} }

\* Arduino.enableBypass / disableBypass: write "on"/"off" if connected; the
\* relay follows when the write went through.
RelayOutcomes(s, on) ==
  IF ~s.conn["arduino"] THEN { [io |-> s, relay |-> relayOn] }
  ELSE { [io |-> SendQuery(s, "arduino", "relay", r),
          relay |-> IF r = "ok" THEN on ELSE relayOn]
         : r \in AnswersIgn(s, "arduino") }

\* getHeader (and, for a scanning 3082, the size-range reads of
\* startRawLog): the 3081 has no sampleFlow attribute and raises; a scanning
\* 3082 parses what it reads with int() and raises on an empty answer.
HeaderOutcomes(s, c) ==
  CASE KindOf(c) = "TSI3080" -> { [io |-> s, raise |-> TRUE] }
    [] IsCamb(KindOf(c)) ->
         { [io |-> SendQuery(s, c, "data", r), raise |-> FALSE]
           : r \in AnswersIgn(s, c) }
    [] KindOf(c) = "TSI3082" /\ IsScannerDev(c) ->
         { [io |-> SendQuery(s, c, "data", r), raise |-> r = "none"]
           : r \in AnswersIgn(s, c) }
    [] OTHER -> { [io |-> s, raise |-> FALSE] }

\* An exception leaves the slot: nothing is released, the timer stays as
\* check() left it.
Raise ==
  /\ pc' = "Crashed"
  /\ outcome' = IF outcome = "none" THEN "crashed" ELSE outcome

\* Ui.runScan 396-404: the scan is on; the first classifier goes to its
\* first point unless the scan opens with a bypass sweep.
ArmFirst ==
  /\ pc = "InitArm"
  /\ IF doBypass
     THEN /\ pc' = "InitArm2"
          /\ isScanning' = TRUE
          /\ UNCHANGED <<timerArmed, fileOpen, alive, released, io, reported,
                         outcome, classVars>>
     ELSE \E n \in NextOutcomes(io, "first") :
            /\ point' = [point EXCEPT !["first"] = NextPoint("first")]
            /\ tally' = [tally EXCEPT !["first"] = NextTally("first")]
            /\ IF n.ok
               THEN /\ io' = n.io
                    /\ pc' = "InitArm2"
                    /\ isScanning' = TRUE
                    /\ UNCHANGED <<timerArmed, fileOpen, alive, released,
                                   reported, outcome>>
               ELSE BarfEffect(n.io, "first")
  /\ UNCHANGED <<fixedVars, flagVars, plantVars, k, dataVars, cancelVars>>

\* Ui.runScan 409-422: the second classifier goes to its first point, the
\* relay is switched for an opening bypass sweep, the file gets its header
\* rows (startRawLog) and the timer is started.
ArmSecond ==
  /\ pc = "InitArm2"
  /\ \E n \in NextOutcomes(io, "second") :
       /\ point' = [point EXCEPT !["second"] = NextPoint("second")]
       /\ tally' = [tally EXCEPT !["second"] = NextTally("second")]
       /\ IF ~n.ok
          THEN /\ BarfEffect(n.io, "second")
               /\ UNCHANGED <<flagVars, relayOn>>
          ELSE \E y \in (IF doBypass THEN RelayOutcomes(n.io, TRUE)
                         ELSE { [io |-> n.io, relay |-> relayOn] }) :
               \E h1 \in HeaderOutcomes(y.io, "first") :
               \E h2 \in (IF h1.raise THEN {h1}
                          ELSE HeaderOutcomes(h1.io, "second")) :
                 /\ relayOn' = y.relay
                 /\ io' = h2.io
                 /\ fileOpen' = TRUE
                 /\ UNCHANGED <<isScanning, alive, released, reported>>
                 /\ IF h2.raise
                    THEN /\ Raise
                         /\ UNCHANGED <<flagVars, timerArmed>>
                    ELSE /\ startRow' = TRUE
                         /\ finalBypass' = FALSE
                         /\ firstBypass' = TRUE
                         /\ disBypass' = TRUE
                         /\ timerArmed' = TRUE
                         /\ pc' = "Timer"
                         /\ UNCHANGED <<doBypass, outcome>>
  /\ UNCHANGED <<fixedVars, scan3082, polling, polls, k, dataVars, cancelVars>>


\* ------------------------------------------------------------ Ui.check
\* Ui.updateStatus reads point/points of the classifiers before it lets the
\* event loop run; it raises when the attribute it reads was deleted.
UpdateStatusRaises(byp) ==
  IF cfg.scanner THEN ~byp /\ ~alive["first"]
  ELSE IF byp THEN ~alive["second"] ELSE ~alive["first"]

\* The first line AAC.StartScan can read after "SassScan": the banner, the
\* scan header, a data line, or nothing (time-out).
ScanLines == {"Cambustion", "SCAN", "data", ""}

\* Instrument.match on these lines: s starts with v.
Match(line, v) == line = v

\* AAC.StartScan's loop returns at the first line that does not start with
\* "Cambustion" and reaches `break` (mtc, isScanning := True) only on a line
\* that starts with "Cambustion" and with "SCAN".
AacScanStarts(line) == Match(line, "Cambustion") /\ Match(line, "SCAN")

TickMutNoStop ==
  /\ pc = "Timer"
  /\ timerArmed
  /\ timerArmed' = timerArmed
  /\ IF ~startRow
     THEN /\ pc' = "Poll2"
          /\ UNCHANGED <<startRow, io, outcome>>
     ELSE IF doBypass
     THEN /\ startRow' = FALSE
          /\ io' = io
          /\ IF UpdateStatusRaises(TRUE)
             THEN Raise
             ELSE pc' = "StatDelay1" /\ outcome' = outcome
     ELSE IF ~alive["first"]
     THEN /\ Raise
          /\ UNCHANGED <<startRow, io>>
     ELSE \E o \in IsReadyOutcomes(io, "first") :
            /\ io' = o.io
            /\ startRow' = (o.res # "ready")
            /\ IF o.res = "raise" THEN Raise
               ELSE /\ pc' = IF o.res = "ready" THEN "StatDelay1"
                             ELSE "StatStab1"
                    /\ outcome' = outcome
  /\ UNCHANGED <<fixedVars, isScanning, fileOpen, doBypass, firstBypass,
                 finalBypass, disBypass, alive, classVars, plantVars, k,
                 dataVars, released, cancelVars, reported>>

\* check() 471-475, 497: the tick.  The timer is stopped; at the start of a
\* row the first classifier is polled (not during a bypass sweep).
Tick ==
  /\ pc = "Timer"
  /\ timerArmed
  /\ timerArmed' = FALSE
  /\ IF ~startRow
     THEN /\ pc' = "Poll2"
          /\ UNCHANGED <<startRow, io, outcome>>
     ELSE IF doBypass
     THEN /\ startRow' = FALSE
          /\ io' = io
          /\ IF UpdateStatusRaises(TRUE)
             THEN Raise
             ELSE pc' = "StatDelay1" /\ outcome' = outcome
     ELSE IF ~alive["first"]
     THEN /\ Raise
          /\ UNCHANGED <<startRow, io>>
     ELSE \E o \in IsReadyOutcomes(io, "first") :
            /\ io' = o.io
            /\ startRow' = (o.res # "ready")
            /\ IF o.res = "raise" THEN Raise
               ELSE /\ pc' = IF o.res = "ready" THEN "StatDelay1"
                             ELSE "StatStab1"
                    /\ outcome' = outcome
  /\ UNCHANGED <<fixedVars, isScanning, fileOpen, doBypass, firstBypass,
                 finalBypass, disBypass, alive, classVars, plantVars, k,
                 dataVars, released, cancelVars, reported>>

\* check() 477-479: after updateStatus("Delay 1"), into the settle loop.
StatDelay1 ==
  /\ pc = "StatDelay1"
  /\ IF cfg.d1 > 0 THEN pc' = "Settle1" /\ k' = 1 /\ io' = io
                   ELSE /\ pc' = "AfterSettle1" /\ k' = k
                        /\ io' = SettleElapsed(io, "first")
  /\ UNCHANGED <<fixedVars, uiVars, flagVars, alive, classVars, plantVars,
                 dataVars, released, cancelVars, reported, outcome>>

\* check() 478-482: one sub-interval of the first settle delay has been
\* slept and the event loop has run.
Settle1 ==
  /\ pc = "Settle1"
  /\ IF ~isScanning THEN pc' = "Idle" /\ k' = k /\ io' = io
     ELSE IF k < cfg.d1 THEN pc' = pc /\ k' = k + 1 /\ io' = io
     ELSE pc' = "AfterSettle1" /\ k' = k /\ io' = SettleElapsed(io, "first")
  /\ UNCHANGED <<fixedVars, uiVars, flagVars, alive, classVars, plantVars,
                 dataVars, released, cancelVars, reported, outcome>>

VarDiameterOutcomesMutSkip(s) == { [io |-> s, raise |-> FALSE] }

\* check() 486-488: with variable bins VarDiameter is called on the current
\* setpoint of the first classifier.  The AAC only stores start and end.  The
\* 3082 looks the bounds up in its size table, where max() of an empty list
\* raises ValueError for a lower bound under the first size, and then sends
\* the two size-range indices (results dropped).
VarDiameterOutcomes(s) ==
  IF ~cfg.varBins THEN { [io |-> s, raise |-> FALSE] }
  ELSE LET t == [s EXCEPT !.ranges = Append(@, point["first"])]
       IN  IF cfg.k2 # "TSI3082" THEN { [io |-> t, raise |-> FALSE] }
           ELSE IF cfg.range = "below" THEN { [io |-> t, raise |-> TRUE] }
           ELSE { [io |-> SendQuery(t, "second", "range", r),
                   raise |-> FALSE] : r \in AnswersIgn(s, "second") }

\* The phase and the outer index in force when a measurement is taken: for
\* a stepped scan at each cpc.conc() of plotIt 663 since the last row, for a
\* scanning second classifier at its StartScan().
Phase(byp) == [byp |-> byp, o |-> point["first"]]

Sampled(s) ==
  IF cfg.scanner THEN s ELSE [s EXCEPT !.meas = @ \cup {Phase(doBypass)}]

ScanStarted(s, byp) == [s EXCEPT !.meas = {Phase(byp)}]

\* check() 491: the scan-start command of a classified outer point goes out
\* with the bounds VarDiameter left.
ClassifiedScanStart(s) ==
  [s EXCEPT !.meas = {Phase(doBypass)},
            !.cscans = Append(@, point["first"]),
            !.scanInvalid = @ \/ (cfg.varBins /\ cfg.range # "valid")]

\* check() 484-490: a scanning second classifier is started once the first
\* one has settled (not during a bypass sweep).
AfterSettle1 ==
  /\ pc = "AfterSettle1"
  /\ IF cfg.scanner /\ ~doBypass
     THEN IF ~alive["second"] \/ ~alive["first"]
          THEN Raise /\ io' = io
          ELSE \E v \in VarDiameterOutcomes(io) :
                 /\ io' = v.io
                 /\ IF v.raise THEN Raise
                    ELSE pc' = "StatScan2" /\ outcome' = outcome
     ELSE /\ pc' = "Poll2"
          /\ UNCHANGED <<io, outcome>>
  /\ UNCHANGED <<fixedVars, uiVars, flagVars, alive, classVars, plantVars, k,
                 dataVars, released, cancelVars, reported>>

\* StartScan of the 3082: DOSCAN, result dropped by every caller.
StartScan3082(s, r) ==
  [io |-> SendQuery(s, "second", "scan", r),
   scan |-> IF ~cfg.scanner THEN scan3082
            ELSE IF r = "ok" THEN "running" ELSE scan3082]

\* StopScan of the 3082: DOABORTSCAN.
StopScan3082(s, r) ==
  [io |-> SendQuery(s, "second", "scan", r),
   scan |-> IF ~cfg.scanner THEN scan3082
            ELSE IF r = "ok" THEN "idle" ELSE scan3082]

\* check() 491-496: StartScan.  For the AAC the scan never counts as
\* started, so endScan runs and the following secondClass.next() finds the
\* attribute deleted.
StatScan2 ==
  /\ pc = "StatScan2"
  /\ IF ~alive["second"]
     THEN /\ Raise
          /\ UNCHANGED <<uiVars, alive, released, io, scan3082>>
     ELSE \E r \in Answers(io, "second"), line \in ScanLines :
            IF cfg.k2 = "TSI3082"
            THEN /\ io' = ClassifiedScanStart(StartScan3082(io, r).io)
                 /\ scan3082' = StartScan3082(io, r).scan
                 /\ pc' = "Poll2"
                 /\ UNCHANGED <<uiVars, alive, released, outcome>>
            ELSE /\ ~AacScanStarts(line)
                 /\ EndScanEffect(ClassifiedScanStart(
                                    SendQuery(io, "second", "scan", r)))
                 /\ pc' = "Crashed"
                 /\ outcome' = "aborted"
                 /\ UNCHANGED scan3082
  /\ UNCHANGED <<fixedVars, flagVars, classVars, relayOn, polling, polls, k,
                 dataVars, cancelVars, reported>>

Poll2MutIgnoresReady ==
  /\ pc = "Poll2"
  /\ IF ~alive["second"]
     THEN Raise /\ io' = io
     ELSE \E o \in IsReadyOutcomes(io, "second") :
            /\ io' = o.io
            /\ IF o.res = "raise" THEN Raise
               ELSE /\ pc' = IF cfg.scanner THEN "PlotIt" ELSE "StatDelay2"
                    /\ outcome' = outcome
  /\ UNCHANGED <<fixedVars, uiVars, flagVars, alive, classVars, plantVars, k,
                 dataVars, released, cancelVars, reported>>

\* check() 503-518: poll the second classifier.
Poll2 ==
  /\ pc = "Poll2"
  /\ IF ~alive["second"]
     THEN Raise /\ io' = io
     ELSE \E o \in IsReadyOutcomes(io, "second") :
            /\ io' = o.io
            /\ IF o.res = "raise" THEN Raise
               ELSE /\ pc' = IF o.res = "notready" THEN "StatStab2"
                             ELSE IF cfg.scanner THEN "PlotIt"
                             ELSE "StatDelay2"
                    /\ outcome' = outcome
  /\ UNCHANGED <<fixedVars, uiVars, flagVars, alive, classVars, plantVars, k,
                 dataVars, released, cancelVars, reported>>

\* check() 498-502: the first classifier is not ready; a scanning 3082 is
\* told to abort its scan; the timer is started again.
StatStab1 ==
  /\ pc = "StatStab1"
  /\ IF cfg.scanner /\ cfg.k2 = "TSI3082"
     THEN IF ~alive["second"]
          THEN /\ Raise
               /\ UNCHANGED <<io, scan3082, timerArmed>>
          ELSE \E r \in Answers(io, "second") :
                 /\ io' = StopScan3082(io, r).io
                 /\ scan3082' = StopScan3082(io, r).scan
                 /\ timerArmed' = TRUE
                 /\ pc' = "Timer"
                 /\ outcome' = outcome
     ELSE /\ timerArmed' = TRUE
          /\ pc' = "Timer"
          /\ UNCHANGED <<io, scan3082, outcome>>
  /\ UNCHANGED <<fixedVars, isScanning, fileOpen, flagVars, alive, classVars,
                 relayOn, polling, polls, k, dataVars, released, cancelVars,
                 reported>>

StatStab2MutNoRearm ==
  /\ pc = "StatStab2"
  /\ pc' = "Timer"
  /\ UNCHANGED <<fixedVars, uiVars, flagVars, alive, classVars, plantVars, k, io,
                 dataVars, released, cancelVars, reported, outcome>>

\* check() 518-519: the second classifier is not ready; the timer is
\* started again.
StatStab2 ==
  /\ pc = "StatStab2"
  /\ timerArmed' = TRUE
  /\ pc' = "Timer"
  /\ UNCHANGED <<fixedVars, isScanning, fileOpen, flagVars, alive, classVars,
                 plantVars, k, io, dataVars, released, cancelVars, reported,
                 outcome>>

\* check() 508-510: after updateStatus("Delay 2"), into the settle loop.
StatDelay2 ==
  /\ pc = "StatDelay2"
  /\ IF cfg.d2 > 0 THEN pc' = "Settle2" /\ k' = 1 /\ io' = io
                   ELSE /\ pc' = "PlotIt" /\ k' = k
                        /\ io' = SettleElapsed(io, "second")
  /\ UNCHANGED <<fixedVars, uiVars, flagVars, alive, classVars, plantVars,
                 dataVars, released, cancelVars, reported, outcome>>

\* check() 509-514: one sub-interval of the second settle delay.
Settle2 ==
  /\ pc = "Settle2"
  /\ IF ~isScanning THEN pc' = "Idle" /\ k' = k /\ io' = io
     ELSE IF k < cfg.d2 THEN pc' = pc /\ k' = k + 1 /\ io' = io
     ELSE pc' = "PlotIt" /\ k' = k /\ io' = SettleElapsed(io, "second")
  /\ UNCHANGED <<fixedVars, uiVars, flagVars, alive, classVars, plantVars,
                 dataVars, released, cancelVars, reported, outcome>>


\* ------------------------------------------------------------ Ui.plotIt

\* plotIt 621-627: up to the event loop run of updateStatus("Averaging").
PlotIt ==
  /\ pc = "PlotIt"
  /\ IF UpdateStatusRaises(doBypass) THEN Raise
     ELSE pc' = "StatAvg" /\ outcome' = outcome
  /\ UNCHANGED <<fixedVars, uiVars, flagVars, alive, classVars, plantVars, k, io,
                 dataVars, released, cancelVars, reported>>

\* Classifier.monitor / TSI3082.doMonitorCmd: the feedback query; float()
\* of an empty answer raises.
MonitorOutcomes(s, c) ==
  { [io |-> SendQuery(s, c, "monitor", r), raise |-> r = "none"]
    : r \in AnswersIgn(s, c) }

\* cpc.conc(): DummyCPC (used with a scanner) has no link.
ConcOutcomes(s) ==
  IF cfg.scanner THEN { [io |-> s, raise |-> FALSE] }
  ELSE { [io |-> SendQuery(s, "cpc", "conc", r), raise |-> r = "none"]
         : r \in AnswersIgn(s, "cpc") }

\* Which second classifiers have StopScan and a StartScan that can run: the
\* 3082 always, the AAC only when built as a scanner (ScanUpTime).
HasStopScan   == cfg.k2 \in {"AAC", "TSI3082"}
StartScanRuns == cfg.k2 = "TSI3082" \/ ScanAacMode

\* plotIt 628-652: the opening bypass sweep switches the relay and restarts
\* the second classifier's scan; then the counter is told to poll.
StatAvg ==
  /\ pc = "StatAvg"
  /\ IF ~alive["first"]
     THEN /\ Raise
          /\ UNCHANGED <<uiVars, alive, released, io, firstBypass, plantVars,
                         k>>
     ELSE IF ~(doBypass /\ firstBypass)
     THEN /\ ~ScanAacMode
          /\ polling' = TRUE
          /\ k' = 0
          /\ pc' = "AvgTop"
          /\ UNCHANGED <<uiVars, alive, released, io, firstBypass, scan3082,
                         relayOn, polls, outcome>>
     ELSE IF ~HasStopScan
     THEN /\ Raise
          /\ UNCHANGED <<uiVars, alive, released, io, firstBypass, plantVars,
                         k>>
     ELSE \E r1 \in AnswersIgn(io, "second") :
          \E y \in RelayOutcomes(StopScan3082(io, r1).io, TRUE) :
            /\ relayOn' = y.relay
            /\ polls' = polls
            /\ IF ~StartScanRuns
               THEN /\ Raise
                    /\ io' = y.io
                    /\ UNCHANGED <<uiVars, alive, released, firstBypass,
                                   scan3082, polling, k>>
               ELSE \E r2 \in Answers(y.io, "second"), line \in ScanLines :
                      IF cfg.k2 = "TSI3082"
                      THEN /\ io' = ScanStarted(StartScan3082(y.io, r2).io,
                                             doBypass)
                           /\ scan3082' =
                                IF r2 # "ok" /\ r1 = "ok"
                                THEN StopScan3082(io, r1).scan
                                ELSE StartScan3082(y.io, r2).scan
                           /\ firstBypass' = FALSE
                           /\ polling' = TRUE
                           /\ k' = 0
                           /\ pc' = "AvgTop"
                           /\ UNCHANGED <<uiVars, alive, released, outcome>>
                      ELSE /\ ~AacScanStarts(line)
                           /\ EndScanEffect(SendQuery(y.io, "second", "scan",
                                                      r2))
                           /\ firstBypass' = FALSE
                           /\ pc' = "Crashed"
                           /\ outcome' = "aborted"
                           /\ UNCHANGED <<scan3082, polling, k>>
  /\ UNCHANGED <<fixedVars, startRow, doBypass, finalBypass, disBypass, classVars,
                 dataVars, cancelVars, reported>>

\* plotIt 653-658 and 669-670: the head of the averaging loop; after the
\* last sample the counter is told to stop polling.
AvgTop ==
  /\ pc = "AvgTop"
  /\ IF k >= cfg.N
     THEN /\ polling' = FALSE
          /\ pc' = "Record"
          /\ UNCHANGED <<io, tally, outcome>>
     ELSE IF doBypass
     THEN /\ pc' = "AvgPE1"
          /\ UNCHANGED <<io, tally, outcome, polling>>
     ELSE \E m \in MonitorOutcomes(io, "first") :
            /\ io' = m.io
            /\ polling' = polling
            /\ IF m.raise THEN Raise /\ tally' = tally
               ELSE /\ tally' = [tally EXCEPT !["first"] = @ + 1]
                    /\ pc' = "AvgPE1"
                    /\ outcome' = outcome
  /\ UNCHANGED <<fixedVars, uiVars, flagVars, alive, point, scan3082, relayOn,
                 polls, k, dataVars, released, cancelVars, reported>>

\* plotIt 659-662: after the first event loop run of an averaging step.
AvgPE1 ==
  /\ pc = "AvgPE1"
  /\ IF ~isScanning
     THEN /\ pc' = "Idle"
          /\ UNCHANGED <<io, tally, outcome>>
     ELSE \E m \in MonitorOutcomes(io, "second") :
            /\ io' = m.io
            /\ IF m.raise THEN Raise /\ tally' = tally
               ELSE /\ tally' = [tally EXCEPT !["second"] = @ + 1]
                    /\ pc' = "AvgPE2"
                    /\ outcome' = outcome
  /\ UNCHANGED <<fixedVars, uiVars, flagVars, alive, point, plantVars, k,
                 dataVars, released, cancelVars, reported>>

\* plotIt 629, 664: whether less than a second has passed since tzero when
\* a sample has been taken.  tzero is set at the top of plotIt and again
\* only inside the wait loop, so after the first sample a second has always
\* passed: either the loop was not entered, or it was left.
WithinSecond == IF k = 0 THEN BOOLEAN ELSE {FALSE}

\* plotIt 663-665: after the second event loop run (no isScanning check
\* here): one counter sample; then the wait loop is entered when less than a
\* second has passed since tzero.
AvgPE2 ==
  /\ pc = "AvgPE2"
  /\ IF ~alive["cpc"]
     THEN /\ Raise
          /\ UNCHANGED <<io, samples, k>>
     ELSE \E c \in ConcOutcomes(io), early \in WithinSecond :
            /\ io' = IF c.raise THEN c.io ELSE Sampled(c.io)
            /\ IF c.raise THEN Raise /\ UNCHANGED <<samples, k>>
               ELSE /\ samples' = samples + 1
                    /\ pc' = IF early THEN "AvgWait" ELSE "AvgTop"
                    /\ k' = IF early THEN k ELSE k + 1
                    /\ outcome' = outcome
  /\ UNCHANGED <<fixedVars, uiVars, flagVars, alive, classVars, plantVars, Z, rows,
                 sweeps, released, cancelVars, reported>>

\* plotIt 664-668: one turn of the wait loop.  tzero is set again as the
\* last statement of the body and the condition is read right after it, so
\* the loop is left only on a stop, or when a second passes between these
\* two adjacent statements.
AvgWait ==
  /\ pc = "AvgWait"
  /\ IF ~isScanning THEN pc' = "Idle" /\ k' = k
     ELSE \E again \in BOOLEAN :
            /\ pc' = IF again THEN "AvgWait" ELSE "AvgTop"
            /\ k' = IF again THEN k ELSE k + 1
  /\ UNCHANGED <<fixedVars, uiVars, flagVars, alive, classVars, plantVars, io,
                 dataVars, released, cancelVars, reported, outcome>>

\* TSI3082.DataReady: the scan-status query, parsed by indexing (raises on
\* an empty answer).
DataReadyOutcomes(s) ==
  { [io |-> SendQuery(s, "second", "status", r), raise |-> r = "none",
     ready |-> r = "ok" /\ scan3082 = "done"]
    : r \in AnswersIgn(s, "second") }

\* Python indexing of Ui.Z by Classifier.point: -1 is the last row.
ZRow(p) == IF p < 0 THEN cfg.P + p ELSE p

WriteZ(z, o, i, b) ==
  {t \in z : ~(t[1] = o /\ t[2] = i)} \cup {<<o, i, b>>}

RowMutFinalOnly(b, o, i) ==
  [byp |-> b /\ finalBypass, o |-> o, i |-> i, rej |-> io.rejected,
   meas |-> io.meas]

Row(b, o, i) ==
  [byp |-> b, o |-> o, i |-> i, rej |-> io.rejected, meas |-> io.meas]

\* The rows of one finished 3082 scan block, in file order.
BlockRows == [j \in 1..cfg.Q |-> Row(doBypass, point["first"], j - 1)]

\* plotIt 672-785, stepped second classifier: the averages of both
\* classifiers (tally must not be 0), the matrix cell, the file row.
RecordStepped ==
  /\ pc = "Record"
  /\ ~cfg.scanner
  /\ IF tally["second"] = 0 \/ (~doBypass /\ tally["first"] = 0)
     THEN /\ Raise
          /\ UNCHANGED <<Z, rows, io>>
     ELSE /\ rows' = Append(rows, Row(doBypass, point["first"],
                                      point["second"]))
          /\ io' = [io EXCEPT !.meas = {}]
          /\ Z' = IF doBypass THEN Z
                  ELSE WriteZ(Z, point["first"], point["second"], FALSE)
          /\ pc' = "StatEnd"
          /\ outcome' = outcome
  /\ UNCHANGED <<fixedVars, uiVars, flagVars, alive, classVars, plantVars, k,
                 sweeps, samples, released, cancelVars, reported>>

\* plotIt 672-674 and 788-926, scanning 3082: nothing is written until the
\* device reports its data ready; then the whole block is written, Ui.Z is
\* built anew, and after the opening bypass block it is zeroed again.
Record3082 ==
  /\ pc = "Record"
  /\ Scan3082Mode
  /\ scan3082 # "done" => polls < MaxPolls
  /\ IF tally["second"] = 0
     THEN /\ Raise
          /\ UNCHANGED <<Z, rows, io, relayOn, disBypass, polls>>
     ELSE \E d \in DataReadyOutcomes(io) :
            IF d.raise
            THEN /\ Raise
                 /\ io' = d.io
                 /\ UNCHANGED <<Z, rows, relayOn, disBypass, polls>>
            ELSE IF ~d.ready
            THEN /\ io' = d.io
                 /\ pc' = "StatEnd"
                 /\ polls' = polls + 1
                 /\ UNCHANGED <<Z, rows, relayOn, disBypass, outcome>>
            ELSE \E r \in AnswersIgn(d.io, "second") :
                 LET s1 == SendQuery(d.io, "second", "data", r) IN
                 IF r = "none" \/ (~doBypass /\ tally["first"] = 0)
                 THEN /\ Raise
                      /\ io' = s1
                      /\ UNCHANGED <<Z, rows, relayOn, disBypass, polls>>
                 ELSE \E y \in (IF doBypass /\ disBypass
                                THEN RelayOutcomes(s1, FALSE)
                                ELSE { [io |-> s1, relay |-> relayOn] }) :
                        /\ io' = y.io
                        /\ relayOn' = y.relay
                        /\ polls' = polls
                        /\ disBypass' = (disBypass /\ ~doBypass)
                        /\ rows' = rows \o BlockRows
                        /\ Z' = IF doBypass /\ ~finalBypass THEN {}
                                ELSE { <<ZRow(point["first"]), j - 1, doBypass>>
                                       : j \in 1..cfg.Q }
                        /\ pc' = "StatEnd"
                        /\ outcome' = outcome
  /\ UNCHANGED <<fixedVars, uiVars, startRow, doBypass, firstBypass, finalBypass,
                 alive, classVars, scan3082, polling, k, sweeps, samples,
                 released, cancelVars, reported>>


\* ------------------------------------------------------------- Ui.next
\* next() 565 / 530: a closing bypass sweep is due when bypass is ticked and
\* it has not been run yet.
FinalBypassDueMutAlways == cfg.bypass

FinalBypassDue == cfg.bypass /\ ~finalBypass

SweepTag == IF doBypass THEN "bypass" ELSE "class"

\* The return to check() 515-519 from a next() that did not end the scan.
BackToTimer ==
  /\ timerArmed' = TRUE
  /\ pc' = "Timer"
  /\ UNCHANGED <<isScanning, fileOpen, alive, released, reported, outcome>>

\* endScan at the end of the last sweep (next() 531 / 594).
Complete ==
  /\ EndScanEffect(io)
  /\ pc' = "Idle"
  /\ outcome' = "complete"
  /\ UNCHANGED reported

\* next() 523-524: plotIt returned because the scan was stopped.
NextStopped ==
  /\ pc = "StatEnd"
  /\ ~isScanning
  /\ pc' = "Idle"
  /\ UNCHANGED <<fixedVars, uiVars, flagVars, alive, classVars, plantVars, k, io,
                 dataVars, released, cancelVars, reported, outcome>>

\* next() 557-618 with a stepped second classifier, inside a sweep: advance
\* the second classifier.
NextInner ==
  /\ pc = "StatEnd"
  /\ isScanning
  /\ ~cfg.scanner
  /\ MoreToCome("second")
  /\ \E n \in NextOutcomes(io, "second") :
       /\ point' = [point EXCEPT !["second"] = NextPoint("second")]
       /\ tally' = [tally EXCEPT !["second"] = NextTally("second")]
       /\ IF n.ok THEN io' = n.io /\ BackToTimer
          ELSE BarfEffect(n.io, "second")
  /\ UNCHANGED <<fixedVars, flagVars, plantVars, k, dataVars, cancelVars>>

\* next() 560-613, stepped, the sweep is over and the first classifier has
\* more points: reset the second classifier, advance the first, then the
\* second.
NextOuter ==
  /\ pc = "StatEnd"
  /\ isScanning
  /\ ~cfg.scanner
  /\ ~MoreToCome("second")
  /\ MoreToCome("first")
  /\ sweeps' = Append(sweeps, SweepTag)
  /\ doBypass' = FALSE
  /\ startRow' = TRUE
  /\ \E n1 \in NextOutcomes(io, "first") :
       IF ~n1.ok
       THEN /\ point' = [point EXCEPT !["first"] = @ + 1, !["second"] = -1]
            /\ tally' = [tally EXCEPT !["first"] = 0]
            /\ BarfEffect(n1.io, "first")
       ELSE \E n2 \in NextOutcomes(n1.io, "second") :
              /\ point' = [point EXCEPT !["first"] = @ + 1, !["second"] = 0]
              /\ tally' = [c \in Cls |-> 0]
              /\ IF n2.ok THEN io' = n2.io /\ BackToTimer
                 ELSE BarfEffect(n2.io, "second")
  /\ UNCHANGED <<fixedVars, firstBypass, finalBypass, disBypass, plantVars, k, Z,
                 rows, samples, cancelVars>>

\* next() 564-604, stepped, the sweep is over and so is the first
\* classifier's axis: either the scan is complete, or the closing bypass
\* sweep starts (relay on, second classifier run with the result dropped,
\* reset, first point).
NextLast ==
  /\ pc = "StatEnd"
  /\ isScanning
  /\ ~cfg.scanner
  /\ ~MoreToCome("second")
  /\ ~MoreToCome("first")
  /\ sweeps' = Append(sweeps, SweepTag)
  /\ IF ~FinalBypassDue
     THEN /\ Complete
          /\ doBypass' = FALSE
          /\ UNCHANGED <<startRow, finalBypass, disBypass, classVars,
                         relayOn>>
     ELSE \E y \in RelayOutcomes(io, TRUE) :
          \E r \in RunOutcomes(y.io, "second") :
          \E n \in NextOutcomes(r.io, "second") :
            /\ doBypass' = TRUE
            /\ finalBypass' = TRUE
            /\ disBypass' = TRUE
            /\ startRow' = TRUE
            /\ relayOn' = y.relay
            /\ point' = [point EXCEPT !["second"] = 0]
            /\ tally' = [tally EXCEPT !["second"] = 0]
            /\ IF n.ok THEN io' = n.io /\ BackToTimer
               ELSE BarfEffect(n.io, "second")
  /\ UNCHANGED <<fixedVars, firstBypass, scan3082, polling, polls, k, Z, rows,
                 samples, cancelVars>>

\* next() 525-555, scanning 3082: nothing happens until the device reports
\* its data ready; then the block is over: complete, start the closing
\* bypass block, or advance the first classifier.
Next3082 ==
  /\ pc = "StatEnd"
  /\ isScanning
  /\ Scan3082Mode
  /\ \E d \in DataReadyOutcomes(io) :
       IF d.raise
       THEN /\ Raise
            /\ io' = d.io
            /\ UNCHANGED <<uiVars, alive, released, reported, flagVars,
                           classVars, scan3082, relayOn, sweeps, polls>>
       ELSE IF ~d.ready
       THEN /\ io' = d.io
            /\ BackToTimer
            /\ UNCHANGED <<flagVars, classVars, scan3082, relayOn, sweeps,
                           polls>>
       ELSE /\ sweeps' = Append(sweeps, SweepTag)
            /\ polls' = polls
            /\ IF MoreToCome("first")
               THEN \E n \in NextOutcomes(d.io, "first") :
                      /\ doBypass' = FALSE
                      /\ startRow' = TRUE
                      /\ point' = [point EXCEPT !["first"] = @ + 1,
                                                !["second"] = -1]
                      /\ tally' = [tally EXCEPT !["first"] = 0]
                      /\ IF n.ok THEN io' = n.io /\ BackToTimer
                         ELSE BarfEffect(n.io, "first")
                      /\ UNCHANGED <<firstBypass, finalBypass, disBypass,
                                     scan3082, relayOn>>
               ELSE IF ~FinalBypassDue
               THEN /\ EndScanEffect(d.io)
                    /\ pc' = "Idle"
                    /\ outcome' = "complete"
                    /\ doBypass' = FALSE
                    /\ UNCHANGED <<reported, startRow, firstBypass,
                                   finalBypass, disBypass, classVars,
                                   scan3082, relayOn>>
               ELSE \E y \in RelayOutcomes(d.io, TRUE) :
                    \E r \in Answers(y.io, "second") :
                      /\ doBypass' = TRUE
                      /\ finalBypass' = TRUE
                      /\ disBypass' = TRUE
                      /\ startRow' = TRUE
                      /\ relayOn' = y.relay
                      /\ io' = ScanStarted(StartScan3082(y.io, r).io, TRUE)
                      /\ scan3082' = StartScan3082(y.io, r).scan
                      /\ point' = [point EXCEPT !["second"] = -1]
                      /\ BackToTimer
                      /\ UNCHANGED <<firstBypass, tally>>
  /\ UNCHANGED <<fixedVars, polling, k, Z, rows, samples, cancelVars>>

\* ------------------------------------------------------- the environment
\* The places where the code lets the event loop run during a scan.
SuspensionPoints ==
  {"Timer", "StatDelay1", "Settle1", "StatStab1", "StatScan2", "StatStab2",
   "StatDelay2", "Settle2", "StatAvg", "AvgPE1", "AvgPE2", "AvgWait",
   "StatEnd"}

\* The stop button: Ui.endScan run by the event loop.  Between two ticks the
\* scan just ends; inside a tick the interrupted code goes on afterwards.
Cancel ==
  /\ pc \in SuspensionPoints
  /\ isScanning
  /\ EndScanEffect(io)
  /\ cancelAt' = pc
  /\ rowsAtCancel' = Len(rows)
  /\ outcome' = "cancelled"
  /\ pc' = IF pc = "Timer" THEN "Idle" ELSE pc
  /\ UNCHANGED <<fixedVars, flagVars, classVars, plantVars, k, dataVars, reported>>

\* The 3082 finishes the scan it was told to run.  Its state is read only by
\* DataReady, so it is enough to let it finish right before those reads.
ScanCompletes ==
  /\ scan3082 = "running"
  /\ pc \in {"Record", "StatEnd"}
  /\ scan3082' = "done"
  /\ UNCHANGED <<fixedVars, pc, uiVars, flagVars, alive, classVars, relayOn,
                 polling, polls, k, io, dataVars, released, cancelVars,
                 reported, outcome>>

Next ==
  \/ RunScanFirst \/ RunScanSecond \/ RunScanCounter \/ RunScanRun
  \/ ArmFirst \/ ArmSecond
  \/ Tick \/ StatDelay1 \/ Settle1 \/ AfterSettle1 \/ StatScan2 \/ Poll2
  \/ StatStab1 \/ StatStab2 \/ StatDelay2 \/ Settle2
  \/ PlotIt \/ StatAvg \/ AvgTop \/ AvgPE1 \/ AvgPE2 \/ AvgWait
  \/ RecordStepped \/ Record3082
  \/ NextStopped \/ NextInner \/ NextOuter \/ NextLast \/ Next3082
  \/ Cancel \/ ScanCompletes

Spec == Init /\ [][Next]_vars

\* The steps the program takes by itself once it has the thread: every step
\* of a handler, and the timer's tick.  Left out are the stop button, the end
\* of the 3082's own scan, and the way out of the wait loop of plotIt
\* 664-668 while the scan runs, which needs a second to pass between two
\* adjacent statements.
ProgramStep ==
  \/ RunScanFirst \/ RunScanSecond \/ RunScanCounter \/ RunScanRun
  \/ ArmFirst \/ ArmSecond
  \/ Tick \/ StatDelay1 \/ Settle1 \/ AfterSettle1 \/ StatScan2 \/ Poll2
  \/ StatStab1 \/ StatStab2 \/ StatDelay2 \/ Settle2
  \/ PlotIt \/ StatAvg \/ AvgTop \/ AvgPE1 \/ AvgPE2
  \/ (AvgWait /\ ~isScanning)
  \/ RecordStepped \/ Record3082
  \/ NextStopped \/ NextInner \/ NextOuter \/ NextLast \/ Next3082

FairSpec == Spec /\ WF_vars(ProgramStep)

\* FairSpec, and a scan the 3082 has started comes to its end.
LiveSpec == FairSpec /\ WF_vars(ScanCompletes)

\* ------------------------------------------------ exercising the contract
\* One classifier object outside any scan: its methods are called in any
\* order, or one function is evaluated on inputs drawn from small sets.
scanVars == <<cfg, pc, isScanning, timerArmed, fileOpen, startRow, doBypass,
              firstBypass, finalBypass, disBypass, alive, point, tally,
              scan3082, relayOn, polling, k, polls, io, Z, rows, sweeps,
              released, samples, cancelAt, rowsAtCancel, reported, outcome>>

AxisInputs ==
  { <<kind, sc, <<ls, LogDen>>, <<ls + span, LogDen>>, perdec>> :
      kind \in Kinds, sc \in BOOLEAN, ls \in 0..1, span \in 1..MaxSpan,
      perdec \in 1..MaxPerdec }

ContractInit ==
  /\ cfg = CHOOSE f \in Configs : TRUE
  /\ pc = "Contract"
  /\ NoScan
  /\ \E a \in AxisInputs :
       /\ a[2] => a[1] \in {"AAC", "TSI3082"}
       /\ cls = ClassifierInit(a[1], a[2], a[3], a[4], a[5])
  /\ call = NoCall

\* next(), not more than once past the end of the axis.
ObjNext ==
  /\ pc = "Contract" /\ call.fn = "none"
  /\ cls.point < cls.points
  /\ cls' \in ClassifierNext(cls)
  /\ UNCHANGED <<scanVars, call>>

ObjReset ==
  /\ pc = "Contract" /\ call.fn = "none"
  /\ cls' = ClassifierReset(cls)
  /\ UNCHANGED <<scanVars, call>>

ObjMonitor ==
  /\ pc = "Contract" /\ call.fn = "none"
  /\ cls.tally < MaxSamples
  /\ \E r \in [ValueFields -> Readings] : cls' = ClassifierMonitor(cls, r)
  /\ UNCHANGED <<scanVars, call>>

ObjGetFileData ==
  /\ pc = "Contract" /\ call.fn = "none"
  /\ cls' = GetFileData(cls)
  /\ UNCHANGED <<scanVars, call>>

ObjVarDiameter ==
  /\ pc = "Contract" /\ call.fn = "none"
  /\ cls.kind = "AAC"
  /\ \E lm \in {-MaxDecades, 0, 3} : cls' = AacVarDiameter(cls, lm)
  /\ UNCHANGED <<scanVars, call>>

\* What the 3082 can answer for a setpoint and for its feedback.
Setpoints == {-TolDen, 0, TolDen, 2 * TolDen}
Feedbacks(sp) == (sp - 2)..(sp + 2)

\* isReady() of a stepped 3082 on the four queried values.
EvalIsReady ==
  /\ pc = "Contract" /\ call.fn = "none" /\ cls.op = "init"
  /\ cls.kind = "TSI3082" /\ ~cls.isScanner
  /\ \E ss \in Setpoints, vs \in Setpoints :
     \E sm \in Feedbacks(ss), vm \in Feedbacks(vs) :
       call' = [fn |-> "isReady", arg |-> <<ss, sm, vs, vm>>,
                out |-> IsReady3082(ss, sm, vs, vm)]
  /\ UNCHANGED <<scanVars, cls>>

\* The range factors a user can enter next to the defaults: a pair the
\* wrong way round.
RangeFactors == { <<FLowerDefault, FUpperDefault>>,
                  <<FUpperDefault, FLowerDefault>> }

\* VarDiameter on an outer setpoint, for each preset.
EvalVarDiameter ==
  /\ pc = "Contract" /\ call.fn = "none" /\ cls.op = "init"
  /\ cls.kind \in {"AAC", "TSI3082"}
  /\ \E lm \in (-MaxDecades)..MaxDecades,
        Dm \in {WaterExponent, SootExponent}, f \in RangeFactors :
       call' = [fn |-> "VarDiameter", arg |-> <<lm, Dm, f[1], f[2]>>,
                out |-> VarDiameter(lm, Dm, f[1], f[2])]
  /\ UNCHANGED <<scanVars, cls>>

\* TSI3082.VarDiameter 665-669: the size table of the 3082, in hundredths
\* of a nanometre.
TSIsetPoints ==
  << 102, 106, 109, 113, 118, 122, 126, 131, 136, 141, 146, 151,
     157, 163, 168, 175, 181, 188, 195, 202, 209, 217, 225, 233,
     241, 250, 259, 269, 279, 289, 300, 311, 322, 334, 346, 359,
     372, 385, 400, 414, 429, 445, 461, 478, 496, 514, 533, 552,
     573, 594, 615, 638, 661, 685, 710, 737, 764, 791, 820, 851,
     882, 914, 947, 982, 1020, 1060, 1090, 1130, 1180, 1220, 1260, 1310,
     1360, 1410, 1460, 1510, 1570, 1630, 1680, 1750, 1810, 1880, 1950, 2020,
     2090, 2170, 2250, 2330, 2410, 2500, 2590, 2690, 2790, 2890, 3000, 3110,
     3220, 3340, 3460, 3590, 3720, 3850, 4000, 4140, 4290, 4450, 4610, 4780,
     4960, 5140, 5330, 5520, 5730, 5940, 6150, 6380, 6610, 6850, 7100, 7370,
     7640, 7910, 8200, 8510, 8820, 9140, 9470, 9820, 10200, 10600, 10900, 11300,
     11800, 12200, 12600, 13100, 13600, 14100, 14600, 15100, 15700, 16300, 16800, 17500,
     18100, 18800, 19500, 20200, 20900, 21700, 22500, 23300, 24100, 25000, 25900, 26900,
     27900, 28900, 30000, 31100, 32200, 33400, 34600, 35900, 37200, 38500, 40000, 41400,
     42900, 44500, 46100, 47800, 49600, 51400, 53300, 55200, 57300, 59400, 61500, 63800,
     66100, 68500, 71000, 73700, 76400, 79100, 82000, 85100, 88200, 91400, 94700, 98200 >>

SetMax(S) == CHOOSE m \in S : \A x \in S : x <= m

\* TSI3082.VarDiameter 670-675: the two indices (counted from 0) looked up
\* in the table; max() of an empty list raises ValueError.
TableIndices(Lower, Upper) ==
  LET LowerIndices == { i \in 0..(Len(TSIsetPoints) - 1) :
                          TSIsetPoints[i + 1] <= Lower }
      UpperIndices == { i \in 0..(Len(TSIsetPoints) - 1) :
                          TSIsetPoints[i + 1] < Upper }
  IN  IF LowerIndices = {} \/ UpperIndices = {}
      THEN [raise |-> TRUE, lower |-> -1, upper |-> -1]
      ELSE [raise |-> FALSE, lower |-> SetMax(LowerIndices),
            upper |-> SetMax(UpperIndices) + 1]

\* Bounds around the ends of the table and inside it.
TableBounds ==
  LET n == Len(TSIsetPoints)
  IN  { TSIsetPoints[1] - 1, TSIsetPoints[1], TSIsetPoints[1] + 1,
        TSIsetPoints[2], TSIsetPoints[n \div 2], TSIsetPoints[n] - 1,
        TSIsetPoints[n], TSIsetPoints[n] + 1 }

\* The table lookup of VarDiameter on a pair of bounds.
EvalTableIndices ==
  /\ pc = "Contract" /\ call.fn = "none" /\ cls.op = "init"
  /\ cls.kind = "TSI3082"
  /\ \E Lower \in TableBounds, Upper \in TableBounds :
       call' = [fn |-> "TableIndices", arg |-> <<Lower, Upper>>,
                out |-> TableIndices(Lower, Upper)]
  /\ UNCHANGED <<scanVars, cls>>

\* sendAndCheck of the classifier's class on each answer a device can
\* give to a setpoint or run command.
EvalSendAndCheck ==
  /\ pc = "Contract" /\ call.fn = "none" /\ cls.op = "init"
  /\ \E r \in Rsp :
       call' = [fn |-> "sendAndCheck", arg |-> <<cls.kind, r>>,
                out |-> Acks(cls.kind, r)]
  /\ UNCHANGED <<scanVars, cls>>

\* plotIt 626-629: ave is read, conc = 0.0.
AveStart ==
  /\ pc = "Contract" /\ call.fn = "none" /\ cls.op = "init"
  /\ \E ave \in 0..MaxSamples :
       call' = [fn |-> "plotIt", arg |-> <<ave, <<>>>>,
                out |-> [i |-> 0, conc |-> 0, res |-> "loop"]]
  /\ UNCHANGED <<scanVars, cls>>

\* plotIt 653, 663: one turn of the loop: conc += cpc.conc().
AveSample ==
  /\ pc = "Contract" /\ call.fn = "plotIt" /\ call.out.res = "loop"
  /\ call.out.i < call.arg[1]
  /\ \E v \in Readings :
       call' = [call EXCEPT !.arg[2] = Append(@, v),
                            !.out.i = @ + 1,
                            !.out.conc = @ + v]
  /\ UNCHANGED <<scanVars, cls>>

\* plotIt 670: conc /= float(ave); ZeroDivisionError for ave = 0.
AveDivide ==
  /\ pc = "Contract" /\ call.fn = "plotIt" /\ call.out.res = "loop"
  /\ call.out.i = call.arg[1]
  /\ call' = IF call.arg[1] = 0
             THEN [call EXCEPT !.out.res = "raise"]
             ELSE [call EXCEPT !.out.res = "ok",
                               !.out.conc = Mean(@, call.arg[1])]
  /\ UNCHANGED <<scanVars, cls>>

ContractNext ==
  \/ ObjNext \/ ObjReset \/ ObjMonitor \/ ObjGetFileData \/ ObjVarDiameter
  \/ EvalIsReady \/ EvalVarDiameter \/ EvalTableIndices
  \/ EvalSendAndCheck
  \/ AveStart \/ AveSample \/ AveDivide

\* The classifier contract alone.
ContractSpec == ContractInit /\ [][ContractNext]_vars

\* The scan and the contract side by side.
FullSpec == (Init \/ ContractInit) /\ [][Next \/ ContractNext]_vars

\* ---------------------------------------------------- receiving an answer
MaxPayload == 2   \* bytes of an answer before its terminator

\* Bytes a device can send: a letter, the prompt, the line ends, and the two
\* bytes of one character outside ASCII.
Bytes == {"a", ">", "\r", "\n", "hi", "lo"}

\* CambustionClass.getRsp 231, CambustionCPC.getRsp 797: the prompt after a
\* line end.
Terminator == <<"\r", "\n", ">">>

BytesUpTo(n) == UNION { [1..m -> Bytes] : m \in 0..n }

\* What arrives: an answer, with or without its terminator, and what the
\* device may send after it.
Streams ==
  { q \o t \o x : q \in BytesUpTo(MaxPayload), t \in {<<>>, Terminator},
                  x \in {<<>>, <<"a">>} }

\* str.find: the first index (from 0) where v starts in s, or -1.
Find(s, v) ==
  LET hits == { i \in 0..(Len(s) - Len(v)) : SubSeq(s, i + 1, i + Len(v)) = v }
  IN  IF hits = {} THEN -1
      ELSE CHOOSE i \in hits : \A j \in hits : i <= j

\* s[0:e], where a negative e counts from the end.
Slice(s, e) ==
  LET n == IF e >= 0 THEN (IF e < Len(s) THEN e ELSE Len(s))
           ELSE (IF Len(s) + e > 0 THEN Len(s) + e ELSE 0)
  IN  IF n = 0 THEN <<>> ELSE SubSeq(s, 1, n)

\* s.replace(ch, "").
Replace(s, ch) == SelectSeq(s, LAMBDA c : c # ch)

\* bytes.decode(): the two bytes of the character outside ASCII must come
\* together, or UnicodeDecodeError is raised.
Decodes(chunk) ==
  \A i \in 1..Len(chunk) :
    /\ chunk[i] = "hi" => (i < Len(chunk) /\ chunk[i + 1] = "lo")
    /\ chunk[i] = "lo" => (i > 1 /\ chunk[i - 1] = "hi")

\* getRsp 241 / 807: chunks[0:chunks.find("\r\n>")].replace(">", "").
GetRspResult(chunks) ==
  Replace(Slice(chunks, Find(chunks, Terminator)), ">")

\* ser.read() gives one byte; sock.recv(1024) whatever part has arrived.
ChunkSizes(isSerial, rest) == IF isSerial THEN {1} ELSE 1..Len(rest)

Receiving == call.fn = "getRsp" /\ call.out.status = "loop"

Returned(o, cause, ret, connected) ==
  [o EXCEPT !.status = "returned", !.cause = cause, !.ret = ret,
            !.connected = connected]

\* getRsp is entered on a connected link.
RspCall ==
  /\ pc = "Link" /\ call.fn = "none"
  /\ \E dev \in {"Cambustion", "TSI"}, isSerial \in BOOLEAN, s \in Streams :
       call' = [fn  |-> "getRsp",
                arg |-> [dev |-> dev, isSerial |-> isSerial, stream |-> s],
                out |-> [chunks |-> <<>>, rest |-> s, connected |-> TRUE,
                         status |-> "loop", cause |-> "none", ret |-> <<>>]]
  /\ UNCHANGED <<scanVars, cls>>

\* getRsp 231-240: one pass of the loop that reads a chunk; decode() is
\* inside the try.
RspRecv ==
  /\ Receiving /\ call.arg.dev = "Cambustion"
  /\ Find(call.out.chunks, Terminator) < 0
  /\ call.out.rest # <<>>
  /\ \E n \in ChunkSizes(call.arg.isSerial, call.out.rest) :
       LET chunk == SubSeq(call.out.rest, 1, n)
       IN  call' = [call EXCEPT !.out =
             IF Decodes(chunk)
             THEN [@ EXCEPT !.chunks = @ \o chunk,
                            !.rest = SubSeq(call.out.rest, n + 1,
                                            Len(call.out.rest))]
             ELSE Returned(@, "decode", <<>>, FALSE)]
  /\ UNCHANGED <<scanVars, cls>>

\* getRsp 237-239, getRspEth 101-103, getRspSerial 108-110: the read raises.
RspError ==
  /\ Receiving
  /\ call.arg.dev = "Cambustion" => Find(call.out.chunks, Terminator) < 0
  /\ call' = [call EXCEPT !.out = Returned(@, "ioerror", <<>>, FALSE)]
  /\ UNCHANGED <<scanVars, cls>>

\* getRsp 231, 241: the time is up at the loop test with no terminator in
\* chunks; find gives -1 and the slice drops the last character.
RspTimeout ==
  /\ Receiving /\ call.arg.dev = "Cambustion"
  /\ Find(call.out.chunks, Terminator) < 0
  /\ call' = [call EXCEPT !.out =
       Returned(@, "timeout", GetRspResult(call.out.chunks), @.connected)]
  /\ UNCHANGED <<scanVars, cls>>

\* getRsp 231, 241: the terminator is in chunks.
RspFound ==
  /\ Receiving /\ call.arg.dev = "Cambustion"
  /\ Find(call.out.chunks, Terminator) >= 0
  /\ call' = [call EXCEPT !.out =
       Returned(@, "found", GetRspResult(call.out.chunks), @.connected)]
  /\ UNCHANGED <<scanVars, cls>>

\* Instrument.getRspEth 98-103: one recv(4096), decoded.
RspPlainEth ==
  /\ Receiving /\ call.arg.dev = "TSI" /\ ~call.arg.isSerial
  /\ \E n \in 1..Len(call.out.rest) :
       LET chunk == SubSeq(call.out.rest, 1, n)
       IN  call' = [call EXCEPT !.out =
             IF Decodes(chunk)
             THEN Returned([@ EXCEPT !.chunks = chunk], "found", chunk,
                           @.connected)
             ELSE Returned(@, "decode", <<>>, FALSE)]
  /\ UNCHANGED <<scanVars, cls>>

\* Instrument.getRspSerial 105-110: readline() gives the line up to its
\* "\n", or what has come when the port's 1 s timeout ends.
RspPlainSerial ==
  /\ Receiving /\ call.arg.dev = "TSI" /\ call.arg.isSerial
  /\ LET eol == Find(call.out.rest, <<"\n">>)
         most == IF eol >= 0 THEN eol + 1 ELSE Len(call.out.rest)
     IN  \E n \in 0..most :
           LET line == Slice(call.out.rest, n)
           IN  call' = [call EXCEPT !.out =
                 IF Decodes(line)
                 THEN Returned([@ EXCEPT !.chunks = line],
                               IF eol >= 0 /\ n = most THEN "found"
                               ELSE "timeout", line, @.connected)
                 ELSE Returned(@, "decode", <<>>, FALSE)]
  /\ UNCHANGED <<scanVars, cls>>

LinkInit ==
  /\ cfg = CHOOSE f \in Configs : TRUE
  /\ pc = "Link"
  /\ NoScan
  /\ cls = NoClassifier
  /\ call = NoCall

LinkNext ==
  \/ RspCall \/ RspRecv \/ RspError \/ RspTimeout \/ RspFound
  \/ RspPlainEth \/ RspPlainSerial

\* One answer received on one link.
LinkSpec == LinkInit /\ [][LinkNext]_vars

\* ------------------------------------------------- queries on one link
MaxQueries == 3   \* queries sent on the link

\* The link of one instrument: n queries sent so far, the queries the device
\* has still to answer, the answers lying unread in the receive buffer
\* (each named by the number of its query), and what the last sendQuery
\* returned (<<>> for the empty string).
QueryLinks ==
  { [fn  |-> "sendQuery",
     arg |-> [dev |-> dev, isSerial |-> isSerial],
     out |-> [n |-> 0, pending |-> <<>>, buf |-> <<>>, status |-> "idle",
              ret |-> <<>>]]
    : dev \in {"Cambustion", "TSI"}, isSerial \in BOOLEAN }

\* sendQuery 125-126: the command is written; nothing is read or discarded
\* before it.
QuerySend ==
  /\ pc = "Query" /\ call.out.status = "idle"
  /\ call.out.n < MaxQueries
  /\ call' = [call EXCEPT !.out.n = @ + 1,
                          !.out.pending = Append(@, call.out.n + 1),
                          !.out.status = "waiting"]
  /\ UNCHANGED <<scanVars, cls>>

\* The device answers its oldest open query, whenever it gets to it.
DeviceAnswers ==
  /\ pc = "Query" /\ call.out.pending # <<>>
  /\ call' = [call EXCEPT !.out.pending = Tail(@),
                          !.out.buf = Append(@, Head(call.out.pending))]
  /\ UNCHANGED <<scanVars, cls>>

\* How many buffered answers one read takes in: ser.read() a byte and
\* readline() a line at a time, so one answer; recv() whatever has come.
AnswersTaken(isSerial, buf) == IF isSerial THEN {1} ELSE 1..Len(buf)

\* sendQuery 127 with data in the buffer.  Cambustion getRsp 231-241 returns
\* what stands before the first terminator and drops the rest of the chunk;
\* getRspEth 100 returns all that recv gave, getRspSerial 107 one line.
QueryReceives ==
  /\ pc = "Query" /\ call.out.status = "waiting"
  /\ call.out.buf # <<>>
  /\ \E j \in AnswersTaken(call.arg.isSerial, call.out.buf) :
       call' = [call EXCEPT
                  !.out.buf = SubSeq(@, j + 1, Len(@)),
                  !.out.ret = IF call.arg.dev = "Cambustion"
                              THEN <<Head(call.out.buf)>>
                              ELSE SubSeq(call.out.buf, 1, j),
                  !.out.status = "idle"]
  /\ UNCHANGED <<scanVars, cls>>

\* sendQuery 127 with nothing to read: the serial port's 1 s read timeout
\* (and the 3 s of the Cambustion loop) ends the wait with an empty answer.
\* A socket has no timeout set: recv waits.
QueryTimesOut ==
  /\ pc = "Query" /\ call.out.status = "waiting"
  /\ call.out.buf = <<>>
  /\ call.arg.isSerial
  /\ call' = [call EXCEPT !.out.ret = <<>>, !.out.status = "idle"]
  /\ UNCHANGED <<scanVars, cls>>

QueryInit ==
  /\ cfg = CHOOSE f \in Configs : TRUE
  /\ pc = "Query"
  /\ NoScan
  /\ cls = NoClassifier
  /\ call \in QueryLinks

QueryNext == QuerySend \/ DeviceAnswers \/ QueryReceives \/ QueryTimesOut

\* The queries and answers of one link.
QuerySpec == QueryInit /\ [][QueryNext]_vars

\* =================================================================== claims
Stepped == ~cfg.scanner

\* Every cell of the P x Q matrix, written by a classified point.
FullMatrix == { <<o, i, FALSE>> : o \in 0..(cfg.P - 1), i \in 0..(cfg.Q - 1) }

\* Set-setpoint commands a classifier gets outside Classifier.next: the one
\* CambustionClass.__init__ sends for the start setpoint.
ConstructorSets(c) == IF IsCamb(KindOf(c)) THEN 1 ELSE 0

\* C1 as stated: a complete stepped scan without bypass and without any
\* failed exchange has sent exactly P set-setpoint commands to the first
\* classifier and P*Q to the second, has taken N*P*Q counter samples and has
\* written every cell of the P x Q matrix.
C1_SetpointCountsAsStated ==
  (outcome = "complete" /\ Stepped /\ ~cfg.bypass /\ io.faults = 0)
    => /\ io.setCmds["first"] = cfg.P
       /\ io.setCmds["second"] = cfg.P * cfg.Q
       /\ samples = cfg.N * cfg.P * cfg.Q
       /\ Z = FullMatrix

\* C1 amended: a complete stepped scan without bypass has advanced the first
\* classifier exactly P times and the second exactly P*Q times (one
\* set-setpoint command per advance), each Cambustion classifier has got one
\* more set-setpoint command from its constructor, N*P*Q counter samples
\* were taken and every cell of the P x Q matrix is written.
C1_SetpointCounts ==
  (outcome = "complete" /\ Stepped /\ ~cfg.bypass)
    => /\ io.advCmds["first"] = cfg.P
       /\ io.advCmds["second"] = cfg.P * cfg.Q
       /\ \A c \in Cls : io.setCmds[c] = io.advCmds[c] + ConstructorSets(c)
       /\ samples = cfg.N * cfg.P * cfg.Q
       /\ Z = FullMatrix
       /\ Len(rows) = cfg.P * cfg.Q

C1_Witness ==
  /\ outcome = "complete" /\ Stepped /\ ~cfg.bypass
  /\ cfg.k1 = "CPMA" /\ cfg.k2 = "TSI3082"
  /\ cfg.P = MaxOuter
  /\ io.faults = 0
  /\ io.setCmds["first"] = cfg.P + 1
  /\ samples = cfg.N * cfg.P * cfg.Q

\* The sweeps of a complete scan with bypass: bypass, P classified, bypass.
BypassSweeps ==
  <<"bypass">> \o [n \in 1..cfg.P |-> "class"] \o <<"bypass">>

\* C2: with bypass ticked the inner sweeps run in the order bypass, P
\* classified sweeps, bypass, and never more; the scan is complete only
\* after all P+2; the first classifier is not advanced before the opening
\* bypass sweep has ended, and not during or after the closing one.
C2_BypassSequence ==
  cfg.bypass =>
    /\ Len(sweeps) <= cfg.P + 2
    /\ \A n \in 1..Len(sweeps) : sweeps[n] = BypassSweeps[n]
    /\ outcome = "complete" => sweeps = BypassSweeps
    /\ sweeps = <<>> => io.advCmds["first"] = 0
    /\ finalBypass => /\ io.advCmds["first"] = cfg.P
                      /\ Len(sweeps) >= cfg.P + 1
    /\ io.advCmds["first"] <= cfg.P

C2_Witness ==
  /\ outcome = "complete" /\ cfg.bypass
  /\ cfg.P = MaxOuter
  /\ sweeps = BypassSweeps
  /\ io.advCmds["first"] = cfg.P

\* Where the stop button can arrive inside the first settle delay and
\* inside an averaging sub-interval.
SettleOrAveraging == {"Settle1", "AvgPE1", "AvgPE2", "AvgWait"}

StoppedInTick ==
  cancelAt \in SettleOrAveraging =>
    /\ ~isScanning /\ ~timerArmed /\ ~fileOpen
    /\ pc \in {cancelAt, "Idle", "Crashed"}
    /\ Len(rows) = rowsAtCancel
    /\ \A d \in {"first", "second", "cpc"} :
         ~alive[d] /\ ~io.conn[d] /\ d \in SeqRange(released)

NothingAfterStop ==
  cancelAt \in SettleOrAveraging =>
    (rows' = rows /\ Z' = Z /\ io' = io /\ timerArmed' = FALSE)

\* C3: once the stop button has been delivered in the first settle delay or
\* in an averaging sub-interval, control only unwinds (it stays where it was
\* interrupted or leaves the tick), the timer is not armed again, both
\* classifiers and the counter are released, no row is added to the file and
\* the matrix is not written.
C3_CancelInTick == []StoppedInTick /\ [][NothingAfterStop]_vars

C3_Witness ==
  /\ cancelAt = "AvgPE1"
  /\ pc = "Idle"
  /\ rowsAtCancel > 0
  /\ k > 0

\* C4 as stated: once a set-setpoint or run command has been refused, the
\* scan is aborted: nothing more is sent except what releasing the devices
\* sends, the refusing device's last response has been shown, the scan is
\* off and both classifiers and the counter are released.
C4_RejectionAborts ==
  io.rejected =>
    /\ ~io.cmdAfterRej
    /\ outcome = "aborted"
    /\ reported # <<>>
    /\ ~isScanning
    /\ \A d \in {"first", "second", "cpc"} : ~alive[d]

\* C5 as stated: no command is ever sent on a link that is down.
C5_NoSendWhenDisconnected == ~io.sentDisc

\* C6 as stated: after a status or feedback query has lost the link of a
\* device during a scan, nothing more is sent to that device (the scan is
\* aborted before the next command to it).
C6_AbortBeforeNextCommand == ~io.cmdAfterQDisc

\* Positions of a device in the release order (empty if not released).
ReleasedAt(d) == {n \in 1..Len(released) : released[n] = d}

\* C7 as stated: wherever the counter and a classifier are both released,
\* the counter is released first.
C7_CounterFirst ==
  \A c \in Cls : \A n \in ReleasedAt("cpc") : \A m \in ReleasedAt(c) : n < m

\* C7 amended: the devices are released in the order of the del statements
\* of the path taken: first classifier, second classifier, counter when
\* endScan ends the scan; second, first, counter when initialisation fails
\* (only the classifiers built so far when a classifier fails to connect).
\* On every path the counter is released after the classifiers.
C7_ReleaseOrder ==
  /\ released \in {<<>>, <<"first">>, <<"second", "first">>,
                   <<"second", "first", "cpc">>, <<"first", "second", "cpc">>}
  /\ \A c \in Cls : \A n \in ReleasedAt("cpc") : \A m \in ReleasedAt(c) : m < n
  /\ outcome \in {"complete", "cancelled"} => released = <<"first", "second", "cpc">>
  /\ outcome = "initfail" => released \in {<<"first">>, <<"second", "first">>,
                                           <<"second", "first", "cpc">>}
  /\ outcome = "aborted" => Len(released) = 3

C7_Witness ==
  /\ outcome = "cancelled"
  /\ released = <<"first", "second", "cpc">>
  /\ rows # <<>>

\* C8 as stated: when a scan without any failed exchange is complete, the
\* file is closed, the timer is stopped, the scan is off and every device
\* opened for the scan, the bypass controller included, is released.
C8_CompleteReleasesAll ==
  (outcome = "complete" /\ io.faults = 0) =>
    /\ ~fileOpen /\ ~timerArmed /\ ~isScanning /\ pc = "Idle"
    /\ \A d \in Devices : ~alive[d] /\ ~io.conn[d]

\* A tick's poll found the classifier not ready.
FailedPoll ==
  \/ pc = "Timer" /\ pc' = "StatStab1"
  \/ pc = "Poll2" /\ pc' = "StatStab2"

\* The step that follows the status message of a failed poll, unless the
\* stop button was pressed before or is being delivered.
AfterFailedPoll ==
  /\ pc \in {"StatStab1", "StatStab2"}
  /\ cancelAt = "" /\ cancelAt' = ""

WaitingUnchanged ==
  /\ point' = point /\ Z' = Z /\ rows' = rows /\ sweeps' = sweeps
  /\ io'.setCmds = io.setCmds /\ io'.runCmds = io.runCmds
  /\ doBypass' = doBypass
  /\ isScanning' = isScanning /\ outcome' = outcome

PollAgain ==
  /\ FailedPoll => WaitingUnchanged
  /\ AfterFailedPoll => /\ WaitingUnchanged
                        /\ pc' = "Timer" /\ timerArmed'
                        /\ startRow' = (pc = "StatStab1")

\* C9: a poll that finds a classifier not ready changes neither index, nor
\* the matrix, nor the rows, and sends no set-setpoint or run command; the
\* tick then arms the timer again and the next tick polls the same
\* classifier; nothing counts the failed polls.
C9_PollRetries == [][PollAgain]_vars

C9_Witness ==
  /\ pc = "Timer" /\ timerArmed /\ isScanning
  /\ ~io.conn["second"] /\ alive["second"]
  /\ ~startRow
  /\ rows # <<>>

\* C10 as stated: a device that has refused a set-setpoint or run command is
\* sent no further set-setpoint or run command.
C10_NoResendAfterRejection == ~io.setRunAfterRej

\* The object whose next() is Classifier.next: every classifier but an AAC
\* built as a scanner.
SteppedObject == ~(cls.kind = "AAC" /\ cls.isScanner)

\* C11 as stated: next() called at the last point answers False, sends
\* nothing and leaves the index, the setpoint, the sums and the tally as
\* they were; called before the last point it moves the index by one, sends
\* one set-setpoint command for X[index] and zeroes the sums and the tally.
C11_AdvanceContract ==
  (cls.op = "next" /\ SteppedObject) =>
    IF cls.pre.point >= cls.points - 1
    THEN /\ cls.res = "False" /\ cls.sent = 0
         /\ cls.point = cls.pre.point /\ cls.x = cls.pre.x
         /\ cls.tally = cls.pre.tally /\ cls.values = cls.pre.values
    ELSE /\ cls.point = cls.pre.point + 1 /\ cls.sent = 1
         /\ cls.x = cls.X[cls.point + 1]
         /\ cls.tally = 0 /\ cls.values = ZeroValues

\* Each index is -1 or a position of its axis, and moreToCome() answers
\* whether a position follows.
IndexInRange ==
  \A c \in Cls :
    /\ -1 <= point[c] /\ point[c] < Points(c)
    /\ MoreToCome(c) <=> (point[c] + 1 < Points(c))

\* A step that moves an index to a position: one step on from a position
\* that has a successor, or to position 0 (reset, then next).
AdvanceGuarded ==
  \A c \in Cls :
    point'[c] \notin {point[c], -1} =>
      \/ point'[c] = point[c] + 1 /\ point[c] + 1 < Points(c)
      \/ point'[c] = 0

\* C12: in every state of a scan each classifier's index i satisfies
\* -1 <= i < points; moreToCome() is true exactly when i + 1 < points; and
\* the index is only ever advanced from a position that has a successor or
\* right after a reset to -1.
C12_IndexDiscipline == []IndexInRange /\ [][AdvanceGuarded]_vars

C12_Witness ==
  /\ Stepped /\ isScanning /\ cfg.P = MaxOuter
  /\ point["first"] = cfg.P - 1 /\ point["second"] = 0
  /\ ~MoreToCome("first") /\ MoreToCome("second")
  /\ Len(rows) = (cfg.P - 1) * cfg.Q

\* C13: when plotIt takes the averages of a classifier (the second one in
\* every row, the first one in every row that is not a bypass row) that
\* classifier's tally is above 0; and getFileData() on a tally of 0 raises
\* instead of returning averages.
C13_AveragesNeedSamples ==
  /\ pc = "Record" =>
       /\ tally["second"] > 0
       /\ ~doBypass => tally["first"] > 0
  /\ cls.op = "getFileData" =>
       /\ cls.pre.tally = 0 => (cls.res = "raise" /\ cls.out = <<>>)
       /\ cls.res = "ok" => (cls.pre.tally > 0 /\ cls.tally = cls.pre.tally)

C13_Witness ==
  /\ pc = "Record" /\ Stepped /\ ~doBypass /\ isScanning
  /\ tally["first"] = cfg.N /\ tally["second"] = cfg.N
  /\ rows # <<>>

RECURSIVE SumOf(_)
SumOf(q) == IF q = <<>> THEN 0 ELSE Head(q) + SumOf(Tail(q))

\* The readings of one channel since the last next().
ChannelReadings(ch) == [n \in 1..Len(cls.readings) |-> cls.readings[n][ch]]

\* C14: after N monitor() calls since the last next(), with readings
\* v_1..v_N of a channel, getFileData() returns (v_1 + ... + v_N) / N for
\* that channel, for every channel; and the concentration plotIt records
\* for a point is the sum of the N counter samples of the point over N.
C14_Averages ==
  /\ (cls.op = "getFileData" /\ cls.res = "ok" /\ SteppedObject) =>
       /\ Len(cls.readings) = cls.tally
       /\ \A ch \in ValueFields :
            cls.out.mean[ch] =
              <<SumOf(ChannelReadings(ch)), Len(cls.readings)>>
  /\ (call.fn = "plotIt" /\ call.out.res = "ok") =>
       /\ Len(call.arg[2]) = call.arg[1]
       /\ call.out.conc = <<SumOf(call.arg[2]), call.arg[1]>>

C14_Witness ==
  /\ cls.op = "getFileData" /\ cls.res = "ok" /\ SteppedObject
  /\ Len(cls.readings) = MaxSamples
  /\ cls.values["Sheath flow (lpm)"] = MaxSamples
  /\ cls.values["Temperature (C)"] = 1
  /\ cls.point > 0

\* |setpoint - feedback| / |setpoint| < tolerance, for a setpoint that is
\* not 0.
WithinTolerance(sp, fb) == Abs(sp - fb) * TolDen < Abs(sp)

AtTolerance(sp, fb) == Abs(sp - fb) * TolDen = Abs(sp)

\* C15: isReady() of a stepped 3082 answers True exactly when the sheath
\* flow and the voltage are both within tolerance of their setpoints,
\* |setpoint - feedback| / setpoint < tolerance; a channel whose deviation
\* is exactly the tolerance, or more, makes the answer False.
C15_ToleranceReady ==
  call.fn = "isReady" =>
    LET ss == call.arg[1]  sm == call.arg[2]
        vs == call.arg[3]  vm == call.arg[4]
    IN  (ss # 0 /\ vs # 0) =>
          /\ call.out \in {"True", "False"}
          /\ call.out = "True" <=>
               (WithinTolerance(ss, sm) /\ WithinTolerance(vs, vm))
          /\ (AtTolerance(ss, sm) \/ AtTolerance(vs, vm)) =>
               call.out = "False"
          /\ (ss > 0 /\ vs > 0 /\ call.out = "True") =>
               /\ (ss - sm) * TolDen < ss /\ (sm - ss) * TolDen < ss
               /\ (vs - vm) * TolDen < vs /\ (vm - vs) * TolDen < vs

C15_Witness ==
  /\ call.fn = "isReady"
  /\ call.arg = <<2 * TolDen, 2 * TolDen - 1, TolDen, TolDen + 1>>
  /\ call.out = "False"

\* perdec * log10(end / start) + 0.00001, as a fraction.
AxisLength(c) ==
  <<c.perdec * (c.end[1] * c.start[2] - c.start[1] * c.end[2]) * EpsDen
      + c.end[2] * c.start[2],
    c.end[2] * c.start[2] * EpsDen>>

\* C16: for perdec > 0 and end > start > 0 the axis built by the
\* constructor has floor(perdec * log10(end/start) + eps) + 1 points: X[0]
\* is start, X[i] is start * (10^(1/perdec))^i, that is log10(X[i]/start) =
\* i / perdec, and the setpoints are strictly increasing.
C16_SweepAxis ==
  (cls.op = "init" /\ SteppedObject) =>
    LET n == cls.points IN
    /\ Less(cls.start, cls.end) /\ cls.perdec > 0
    /\ n >= 1 /\ Len(cls.X) = n
    /\ ~Less(AxisLength(cls), <<n - 1, 1>>)
    /\ Less(AxisLength(cls), <<n, 1>>)
    /\ Equal(cls.X[1], cls.start)
    /\ \A i \in 1..n :
         cls.perdec * (cls.X[i][1] * cls.start[2]
                         - cls.start[1] * cls.X[i][2])
           = (i - 1) * cls.start[2] * cls.X[i][2]
    /\ \A i \in 1..(n - 1) : Less(cls.X[i], cls.X[i + 1])

C16_Witness ==
  /\ cls.op = "init" /\ cls.kind = "CPMA"
  /\ cls.perdec = MaxPerdec
  /\ cls.start[1] = 1 /\ cls.end[1] = 1 + MaxSpan
  /\ cls.points > 2 /\ Len(cls.X) = cls.points

TableKept == cls'.points = cls.points /\ cls'.X = cls.X

IndexLeavesUnsetByAdvance ==
  (cls.point = -1 /\ cls'.point # -1) => cls'.op = "next"

\* C17: the setpoint table and the number of points of a classifier are
\* those its constructor built: advance, reset, sample, averages and range
\* recomputation leave both unchanged, the index is -1 after construction
\* and only an advance moves it away from -1.
C17_TableFixed ==
  /\ [](cls.op = "init" => cls.point = -1)
  /\ [](~cls.hasValues => cls.point = -1)
  /\ [][TableKept]_vars
  /\ [][IndexLeavesUnsetByAdvance]_vars

C17_Witness ==
  /\ cls.op = "VarDiameter" /\ cls.kind = "AAC" /\ ~cls.isScanner
  /\ cls.point = cls.points - 1 /\ cls.points > 1
  /\ cls.tally > 0
  /\ ~Equal(cls.start, cls.X[1])

C17_WitnessSelfScan ==
  /\ cls.kind = "AAC" /\ cls.isScanner
  /\ cls.op = "next" /\ cls.points = 0 /\ cls.X = <<>> /\ cls.point = -1

\* C18: VarDiameter for a mass m with constants K and D computes
\* dStar = ((m * 1e-18) / K)^(1/D) * 1e9, that is D * (log10 dStar - 9) =
\* log10(m / K) - 18, and the bounds dStar^f_lower and dStar^f_upper; with
\* the water preset and m = K it gives dStar = 1000, and with the default
\* factors 0.85 and 1.1 every dStar > 1 gives start < end.
C18_RangeLaw ==
  call.fn = "VarDiameter" =>
    LET lm == call.arg[1]
        Dm == call.arg[2]
        f_lower == call.arg[3]
        f_upper == call.arg[4]
        dStar == call.out.dmStar
        one == <<0, 1>>
    IN  /\ dStar[2] > 0 /\ call.out.start[2] > 0 /\ call.out.end[2] > 0
        /\ Dm[1] * (dStar[1] - 9 * dStar[2]) = (lm - 18) * Dm[2] * dStar[2]
        /\ 100 * call.out.start[1] * dStar[2]
             = f_lower * dStar[1] * call.out.start[2]
        /\ 100 * call.out.end[1] * dStar[2]
             = f_upper * dStar[1] * call.out.end[2]
        /\ (Dm = WaterExponent /\ lm = 0) => Equal(dStar, <<3, 1>>)
        /\ (f_lower = FLowerDefault /\ f_upper = FUpperDefault
              /\ Less(one, dStar))
             => Less(call.out.start, call.out.end)

C18_Witness ==
  /\ call.fn = "VarDiameter"
  /\ call.arg = <<0, WaterExponent, FLowerDefault, FUpperDefault>>
  /\ Equal(call.out.dmStar, <<3, 1>>)
  /\ Less(call.out.start, call.out.end)

\* C19: when the recomputed variable-bin range is invalid (start >= end or
\* a bound off the scale), it is detected before the scan is started: no
\* scan-start command goes to the second classifier for that outer point
\* with the invalid bounds.
C19_InvalidRangeStopsScan == ~io.scanInvalid

RangeOncePerPoint ==
  /\ ~cfg.varBins => io.ranges = <<>>
  /\ \A n \in 1..Len(io.ranges) : io.ranges[n] = n - 1
  /\ cfg.varBins =>
       /\ Len(io.cscans) <= Len(io.ranges)
       /\ Len(io.ranges) <= Len(io.cscans) + 1
       /\ \A n \in 1..Len(io.cscans) : io.cscans[n] = io.ranges[n]
       /\ \A n \in 1..Len(rows) :
            ~rows[n].byp =>
              \E m \in 1..Len(io.cscans) : io.ranges[m] = rows[n].o
       /\ pc = "StatScan2" =>
            /\ io.ranges # <<>>
            /\ io.ranges[Len(io.ranges)] = point["first"]
            /\ Len(io.cscans) = Len(io.ranges) - 1

RangeOnlyAfterSettle ==
  io'.ranges # io.ranges =>
    /\ cfg.varBins /\ cfg.scanner
    /\ pc = "AfterSettle1" /\ ~doBypass /\ ~startRow
    /\ cfg.d1 > 0 => k = cfg.d1
    /\ io'.ranges = Append(io.ranges, point["first"])
    /\ io'.cscans = io.cscans

\* C20: in variable-bin mode the range of the second classifier is
\* recomputed exactly once for every classified outer point, from the index
\* of that point, after the first classifier was found ready and the first
\* settle delay has passed and before the scan of that point is started; it
\* is recomputed at no other time, neither in a bypass sweep nor between
\* inner points, and never without variable bins.
C20_RangeRecomputation ==
  []RangeOncePerPoint /\ [][RangeOnlyAfterSettle]_vars

C20_Witness ==
  /\ cfg.varBins /\ cfg.bypass /\ cfg.k2 = "TSI3082"
  /\ io.ranges = <<0, 1>> /\ io.cscans = <<0, 1>>
  /\ pc = "Poll2"

\* C21: getRsp returns the empty string and leaves the link Disconnected
\* whenever a transport error occurs or the timeout ends with no terminator
\* seen: then it never returns a part of the answer and never leaves the
\* link Connected.
C21_ReceiveFailsEmpty ==
  (call.fn = "getRsp" /\ call.out.status = "returned"
     /\ call.out.cause \in {"ioerror", "timeout"}) =>
    (call.out.ret = <<>> /\ ~call.out.connected)

\* The answer before the first terminator of the stream.
Payload(stream) == Slice(stream, Find(stream, Terminator))

\* C22: on a Cambustion link, when the stream holds the terminator and
\* neither a transport error nor the timeout ends the call, getRsp returns
\* exactly the bytes before the first terminator, however the stream is cut
\* into chunks.
C22_ReceiveIsChunkIndependent ==
  (call.fn = "getRsp" /\ call.arg.dev = "Cambustion"
     /\ call.out.status = "returned"
     /\ Find(call.arg.stream, Terminator) >= 0
     /\ call.out.cause \notin {"ioerror", "timeout"}) =>
    call.out.ret = Payload(call.arg.stream)

\* The devices runScan creates for this configuration.
UsedDevices ==
  {"first", "second", "cpc"} \cup (IF cfg.bypass THEN {"arduino"} ELSE {})

\* C23: when the initial connect of a device the scan uses (a classifier,
\* the counter, the bypass controller if bypass is enabled) has failed, the
\* scan never starts: isScanning stays false, the timer is never armed, no
\* run command is issued, and no created device is kept.
C23_ConnectFailureAborts ==
  (io.connFail \cap UsedDevices # {}) =>
    /\ ~isScanning /\ ~timerArmed
    /\ io.runCmds = 0
    /\ pc \notin {"Idle", "Crashed"} \/ \A d \in UsedDevices : ~alive[d]

ReadinessPolls == {"StatStab1", "StatStab2"}

\* C24: once the stop button has been delivered while a tick waits for the
\* first or the second classifier to become ready (in the status update of
\* "Stabilising 1" or "Stabilising 2"), the scan stops in that tick: the
\* timer is not armed again, so no later tick runs.
C24_CancelInPoll ==
  cancelAt \in ReadinessPolls => (~isScanning /\ ~timerArmed)

\* A step is the code between two runs of the event loop.  A wait that let
\* the event loop run would end the step that switches the relay before the
\* command that follows the wait.
BypassSettleYields ==
  (pc \in {"StatAvg", "StatEnd"} /\ ~relayOn /\ relayOn') =>
    /\ io'.runCmds = io.runCmds
    /\ io'.setCmds = io.setCmds
    /\ scan3082' = "running" => scan3082 = "running"

CancelledSettleEnds ==
  cancelAt \in {"Settle1", "Settle2"} =>
    (io' = io /\ pc' \in {pc, "Idle"})

\* C25: every settle delay of a scan (after the first classifier is ready,
\* after the second is ready, after the bypass relay is switched) lets the
\* event loop run in every sub-interval, and a stop seen there ends the wait
\* without the device operation that would follow.
C25_SettleYieldsAndAborts ==
  [][BypassSettleYields]_vars /\ [][CancelledSettleEnds]_vars

\* Where control is while check() is on the stack.
TickPcs ==
  {"StatDelay1", "Settle1", "AfterSettle1", "StatScan2", "Poll2",
   "StatStab1", "StatStab2", "StatDelay2", "Settle2", "PlotIt", "StatAvg",
   "AvgTop", "AvgPE1", "AvgPE2", "AvgWait", "Record", "StatEnd"}

TickStartsOutside ==
  (pc \notin TickPcs /\ pc' \in TickPcs) => (pc = "Timer" /\ timerArmed)

RowsTaggedAsMeasured ==
  \A n \in 1..Len(rows) :
    /\ rows[n].meas # {}
    /\ \A m \in rows[n].meas :
         /\ m.byp = rows[n].byp
         /\ ~rows[n].byp => m.o = rows[n].o

ClassifiedRowHasFeedback ==
  (rows' # rows /\ ~doBypass) => (alive["first"] /\ tally["first"] > 0)

\* C27: a row carries the "Bypassed" marker in the fields of the first
\* classifier exactly when what it reports was measured in a bypass phase;
\* a row of a classified sweep carries the setpoint the first classifier had
\* while it was measured, with feedback averaged over at least one reading.
C27_BypassRows ==
  []RowsTaggedAsMeasured /\ [][ClassifiedRowHasFeedback]_vars

C27_Witness ==
  /\ ~cfg.scanner /\ cfg.bypass
  /\ \E n, m \in 1..Len(rows) :
       /\ n < m /\ rows[n].byp /\ ~rows[m].byp
       /\ rows[m].meas = {[byp |-> FALSE, o |-> rows[m].o]}

C27_WitnessScan ==
  /\ Scan3082Mode /\ cfg.bypass
  /\ \E n, m \in 1..Len(rows) : n < m /\ rows[n].byp /\ ~rows[m].byp

\* C28: with a scanning 3082 every block the program counts as finished
\* has its rows in the file exactly once: the first classifier is advanced,
\* the closing bypass started or the scan completed only after the rows of
\* the block have been written, whenever the device's data-ready status
\* changes between two status queries.
C28_BlockRowsOnce ==
  Scan3082Mode =>
    /\ cfg.Q * Len(sweeps) <= Len(rows)
    /\ Len(rows) <= cfg.Q * (Len(sweeps) + 1)

\* C29: in a stepped scan no counter sample of a classified point is taken
\* until, after the most recent set-setpoint command to each classifier, that
\* classifier has reported ready and its settle delay has run to its end,
\* the outer classifier before the inner one; and the inner classifier is
\* advanced only after the row of the current point has been emitted.
SampleAfterSettled ==
  (~cfg.scanner /\ ~doBypass /\ samples' > samples) =>
    \A c \in Cls : io.stage[c] = "settled"

OuterBeforeInner ==
  (~cfg.scanner /\ ~doBypass /\ io.stage["second"] = "set"
     /\ io'.stage["second"] = "ready") =>
    io.stage["first"] = "settled"

InnerAdvancedAfterRow ==
  (~cfg.scanner /\ io.advCmds["second"] >= 1
     /\ io'.advCmds["second"] > io.advCmds["second"]) =>
    /\ Len(rows) = io.advCmds["second"]
    /\ rows[Len(rows)].i = point["second"]
    /\ rows[Len(rows)].byp = doBypass
    /\ doBypass \/ rows[Len(rows)].o = point["first"]

C29_SampleAfterSettle ==
  /\ [][SampleAfterSettled]_vars
  /\ [][OuterBeforeInner]_vars
  /\ [][InnerAdvancedAfterRow]_vars

\* Two rows of one sweep of the first classifier have been written, so the
\* second classifier was set, polled and settled again inside the row.
C29_Witness ==
  /\ ~cfg.scanner
  /\ Len(rows) >= 2
  /\ ~rows[Len(rows)].byp
  /\ ~rows[Len(rows) - 1].byp
  /\ rows[Len(rows)].o = rows[Len(rows) - 1].o
  /\ rows[Len(rows)].i # rows[Len(rows) - 1].i
  /\ io.setCmds["second"] >= 2

\* C30: without cancellation the averaging of one point ends: the wait
\* loop after a counter sample is left again, whatever time the device
\* queries before it took, so that the remaining samples are taken and the
\* row is emitted.
C30_AveragingTerminates ==
  (pc = "AvgWait") ~> (pc # "AvgWait" \/ cancelAt # "")

\* C31: under fair ticking, when every device connects, every command is
\* answered, the readiness polls do not go on answering "not ready" for ever
\* and the user never cancels, a started scan reaches Complete and the
\* program is back in Idle.
ScanExcused ==
  \/ io.faults > 0
  \/ io.connFail # {}
  \/ cancelAt # ""

C31_ScanCompletes ==
  <>[](pc \notin ReadinessPolls) =>
    (isScanning ~> ((outcome = "complete" /\ pc = "Idle") \/ ScanExcused))

\* C32: for the 3082 the range recomputation sends as lower bound the index
\* of the largest table entry <= Lower and as upper bound one more than the
\* index of the largest table entry < Upper, so that the lower index is
\* below the upper index whenever Lower < Upper, also when Lower is under
\* the smallest or Upper above the largest table entry.
C32_TableSnap ==
  (call.fn = "TableIndices" /\ call.arg[1] < call.arg[2]) =>
    /\ ~call.out.raise
    /\ call.out.lower < call.out.upper
    /\ call.out.lower \in 0..(Len(TSIsetPoints) - 1)
    /\ call.out.upper \in 1..Len(TSIsetPoints)

\* C33: the bypass relay is on only during bypass phases: no counter
\* sample of a classified point of a stepped scan is taken, and no block of
\* a scanning 3082 for a classified outer setpoint is being measured, while
\* the relay is switched on.
ClassifiedSampleWithoutRelay ==
  (~cfg.scanner /\ ~doBypass /\ samples' > samples) => ~relayOn

ClassifiedBlockWithoutRelay ==
  (Scan3082Mode /\ ~doBypass /\ scan3082 = "running") => ~relayOn

C33_RelayOnlyInBypass ==
  /\ [][ClassifiedSampleWithoutRelay]_vars
  /\ []ClassifiedBlockWithoutRelay

\* C34: every value sendQuery returns is the device's answer to the command
\* of that same call, whatever the delays of the device's answers.
C34_AnswerMatchesQuery ==
  (call.fn = "sendQuery" /\ call.out.status = "idle" /\ call.out.ret # <<>>)
    => call.out.ret = <<call.out.n>>

\* C35: for every kind of classifier a setpoint or run command is reported
\* successful only if the device acknowledged it; an empty answer (timeout
\* or transport error) is reported as failure.
C35_SuccessNeedsAck ==
  (call.fn = "sendAndCheck" /\ call.out) => call.arg[2] = "ok"

\* C36: once endScan has released the devices, no later step of the tick or
\* of a later tick calls on a released classifier or counter: the program
\* never ends in the exception such a call raises.
C36_NoUseAfterRelease ==
  released # <<>> => pc # "Crashed"

\* C37: within one scan a cell of the result matrix written for a
\* classified point stays as written: recording a later point, a later
\* outer row or a later scan block neither clears nor overwrites it.
ClassifiedCellsKept ==
  \A t \in Z : ~t[3] => t \in Z'

C37_CellsKept ==
  [][ClassifiedCellsKept]_vars

\* C38: concentrations measured during a bypass phase are never written
\* into the result matrix, and every cell written lies at an outer index in
\* 0..P-1 and an inner index in 0..Q-1.
C38_NoBypassCells ==
  \A t \in Z : ~t[3] /\ t[1] \in 0..(cfg.P - 1) /\ t[2] \in 0..(cfg.Q - 1)

\* C39: in a stepped scan, at the start of the averaging of every point the
\* accumulated sums and sample counts of both classifiers are zero, so that
\* the averages of the row come from the N samples of that point alone.
C39_FreshAverages ==
  (~cfg.scanner /\ pc = "AvgTop" /\ k = 0) =>
    /\ tally["second"] = 0
    /\ ~doBypass => tally["first"] = 0

\* C40: every startpoll sent to the counter for a point is followed by its
\* endpoll before the scan ends, also when the averaging of the point is cut
\* short: the counter is not left polling once the program is back in Idle.
C40_PollingEnded ==
  pc = "Idle" => ~polling

====
